---- MODULE Spec2Model ----
(***************************************************************************)
(* Model of the mindset state-machine engine: StateMachine (effects/       *)
(* machine.rs), Transition (effects/transition.rs), StateHistory           *)
(* (core/history.rs), MachineMetadata and Checkpoint (checkpoint/mod.rs)   *)
(* with the JSON and bincode encodings of a checkpoint.                    *)
(*                                                                         *)
(* The caller drives the two-phase protocol: step() matches a transition,  *)
(* invokes its action factory and runs the effect; the caller then holds   *)
(* the returned triple and hands it to apply_result().  The triples the    *)
(* caller holds are the bag `pending`.                                     *)
(***************************************************************************)
EXTENDS Integers, Sequences, FiniteSets, Bags, TLC

----------------------------------------------------------------------------
(* Bounds of the model *)

MaxHistory == 2       \* committed transitions
MaxAttempts == 2      \* committed retries
MaxPending == 1       \* step results the caller holds uncommitted
MaxRecords == 2       \* records of a StateHistory built on its own
MaxChecks == 2        \* custom checks registered with an EnforcementBuilder
MaxBuilt == 2         \* transitions handed to a StateMachineBuilder
MaxStale == 2         \* step results held uncommitted by a caller that steps ahead

----------------------------------------------------------------------------
(* States: the WorkflowState enum of the engine's tests, by discriminant *)

Initial == 0
Processing == 1
Complete == 2
Failed == 3

States == {Initial, Processing, Complete, Failed}

\* State::name of WorkflowState
name(s) ==
    CASE s = Initial -> "Initial"
      [] s = Processing -> "Processing"
      [] s = Complete -> "Complete"
      [] s = Failed -> "Failed"

\* State::is_final of WorkflowState
is_final(s) == s \in {Complete, Failed}

\* State::is_error of a state type that marks its failure state
is_error(s) == s = Failed

----------------------------------------------------------------------------
(* Guards: an absent guard, or one of the predicates the sources use *)

NoGuard == "None"

\* Guard::check for the guards Guard::new(|s| s.is_final()) and
\* Guard::new(|s| !s.is_final())
check(g, s) ==
    CASE g = "is_final" -> is_final(s)
      [] g = "not_final" -> ~is_final(s)

----------------------------------------------------------------------------
(* TransitionResult, TransitionError, StepResult *)

Success(s) == [kind |-> "Success", state |-> s]
RetryResult(f, s) == [kind |-> "Retry", feedback |-> f, current_state |-> s]
Abort(r, s) == [kind |-> "Abort", reason |-> r, error_state |-> s]
ActionFailed(d) == [kind |-> "Err", error |-> [type |-> "ActionFailed", detail |-> d]]

NoTransition(f) == [type |-> "NoTransition", from |-> f]

Transitioned(s) == [kind |-> "Transitioned", state |-> s]
Retry(f, n) == [kind |-> "Retry", feedback |-> f, attempts |-> n]
Aborted(r, s) == [kind |-> "Aborted", reason |-> r, error_state |-> s]

(* An action factory is modelled by the set of outcomes the effect it      *)
(* produces can resolve to over the environments it may be run against.    *)
SucceedProcessing == {Success(Processing)}
SucceedComplete == {Success(Complete)}
AlwaysRetry == {RetryResult("Not ready yet", Processing)}
AlwaysAbort == {Abort("Something went wrong", Failed)}
EnvDependent == {Success(Processing), RetryResult("Not ready yet", Initial),
                 Abort("Environment not ready", Failed), ActionFailed("io")}
Recover == {Success(Initial), RetryResult("Still failed", Failed)}

\* Option<T>: None is the empty sequence, Some(v) the sequence holding v
None == <<>>
Some(v) == <<v>>

\* The transitions of the callers' machines
ToProcessing ==
    [from |-> Initial, to |-> Processing, guard |-> NoGuard, action |-> SucceedProcessing,
     enforcement |-> None]
ToComplete ==
    [from |-> Processing, to |-> Complete, guard |-> NoGuard, action |-> SucceedComplete,
     enforcement |-> None]
Blocked ==
    [from |-> Initial, to |-> Processing, guard |-> "is_final", action |-> SucceedProcessing,
     enforcement |-> None]
Skipping ==
    [from |-> Initial, to |-> Processing, guard |-> "not_final", action |-> SucceedComplete,
     enforcement |-> None]
Retrying ==
    [from |-> Initial, to |-> Processing, guard |-> NoGuard, action |-> AlwaysRetry,
     enforcement |-> None]
Aborting ==
    [from |-> Initial, to |-> Processing, guard |-> NoGuard, action |-> AlwaysAbort,
     enforcement |-> None]
Effectful ==
    [from |-> Initial, to |-> Processing, guard |-> NoGuard, action |-> EnvDependent,
     enforcement |-> None]
Recovering ==
    [from |-> Failed, to |-> Initial, guard |-> "is_final", action |-> Recover,
     enforcement |-> None]
\* a second way out of Initial, to another state than ToProcessing leads to
Shortcut ==
    [from |-> Initial, to |-> Complete, guard |-> NoGuard, action |-> SucceedComplete,
     enforcement |-> None]

\* a retrying transition that carries enforcement rules allowing one attempt
Capped ==
    [from |-> Initial, to |-> Processing, guard |-> NoGuard, action |-> AlwaysRetry,
     enforcement |-> Some([max_attempts |-> Some(1), timeout |-> None,
                           required_checks |-> <<>>, on_violation |-> "Abort"])]

\* The transition lists callers build their machines with, in the order they add them
Scripts ==
    { <<ToProcessing>>,
      <<ToProcessing, ToComplete>>,
      <<Blocked>>,
      <<Retrying>>,
      <<Aborting>>,
      <<Blocked, Skipping, ToProcessing>>,
      <<Retrying, Aborting, ToComplete>>,
      <<Aborting, Recovering, Effectful>>,
      <<Effectful, ToComplete>>,
      <<ToProcessing, Shortcut>>,
      <<Capped>> }

\* a machine that may retry, abort, and then recover from the error state
RecoveryScripts == {<<Effectful, Recovering>>}

----------------------------------------------------------------------------
VARIABLES
    initial,        \* StateMachine.initial
    current,        \* StateMachine.current
    transitions,    \* StateMachine.transitions, in insertion order
    history,        \* StateMachine.history: the records of StateHistory.transitions
    attempt_count,  \* StateMachine.attempt_count
    metadata,       \* StateMachine.metadata
    script,         \* the transitions the caller adds to the machine, in order
    pending,        \* bag of the triples returned by step() that the caller still holds
    ret,            \* the last operation, its arguments and what it returned
    last_commit     \* the last committed result that set `current`, with the
                    \* retries committed since then (`retries`) and since the
                    \* last committed success or the construction (`run`)

machine == <<initial, current, history, attempt_count, metadata>>
vars == <<initial, current, transitions, history, attempt_count, metadata,
          script, pending, ret, last_commit>>

----------------------------------------------------------------------------
(* Pure helpers *)

\* can_execute without the guard check
can_execute_unguarded(t, cur) == cur = t.from

\* can_execute that also holds the attempt count against the max_attempts of the
\* transition's enforcement rules
can_execute_capped(t, cur) ==
    /\ cur = t.from
    /\ IF t.guard = NoGuard THEN TRUE ELSE check(t.guard, cur)
    /\ \/ t.enforcement = None
       \/ t.enforcement[1].max_attempts = None
       \/ attempt_count <= t.enforcement[1].max_attempts[1]

\* Transition::can_execute
\* can_execute refusing to leave a final or an error state
can_execute_live(t, cur) ==
    IF is_final(cur) \/ is_error(cur) THEN FALSE
    ELSE IF cur # t.from THEN FALSE
    ELSE IF t.guard = NoGuard THEN TRUE ELSE check(t.guard, cur)

\* Transition::can_execute
can_execute(t, cur) ==
    IF cur # t.from THEN FALSE
    ELSE IF t.guard = NoGuard THEN TRUE ELSE check(t.guard, cur)

\* find that keeps the last transition that can execute instead of the first
find_last(ts, cur) ==
    IF \E i \in 1..Len(ts) : can_execute(ts[i], cur)
    THEN CHOOSE i \in 1..Len(ts) :
            /\ can_execute(ts[i], cur)
            /\ \A j \in (i + 1)..Len(ts) : ~can_execute(ts[j], cur)
    ELSE 0

\* self.transitions.iter().find(|t| t.can_execute(&self.current)):
\* the index of the first transition that can execute, 0 when there is none
find(ts, cur) ==
    IF \E i \in 1..Len(ts) : can_execute(ts[i], cur)
    THEN CHOOSE i \in 1..Len(ts) :
            /\ can_execute(ts[i], cur)
            /\ \A j \in 1..(i - 1) : ~can_execute(ts[j], cur)
    ELSE 0

\* the match in step() with the Retry arm reporting the attempt count as it is
step_result_stale(result, attempts) ==
    CASE result.kind = "Success" -> Transitioned(result.state)
      [] result.kind = "Retry" -> Retry(result.feedback, attempts)
      [] result.kind = "Abort" -> Aborted(result.reason, result.error_state)

\* the match in step() that turns the action's TransitionResult into a StepResult
step_result(result, attempts) ==
    CASE result.kind = "Success" -> Transitioned(result.state)
      [] result.kind = "Retry" -> Retry(result.feedback, attempts + 1)
      [] result.kind = "Abort" -> Aborted(result.reason, result.error_state)

\* record that starts over from an empty list instead of a copy of the records
record_replacing(h, t) == <<t>>

\* StateHistory::record
record(h, t) == Append(h, t)

\* get_path without the `from` of the first record
get_path_targets(h) == [i \in 1..Len(h) |-> h[i].to]

\* StateHistory::get_path
get_path(h) ==
    (IF h # <<>> THEN <<h[1].from>> ELSE <<>>) \o [i \in 1..Len(h) |-> h[i].to]

\* StateMachine::update_metadata
update_metadata(md, transition_name, t) ==
    [md EXCEPT !.updated_at = t,
               !.total_attempts =
                   IF transition_name \in DOMAIN md.total_attempts
                   THEN [md.total_attempts EXCEPT ![transition_name] = @ + 1]
                   ELSE [k \in DOMAIN md.total_attempts \cup {transition_name} |->
                            IF k = transition_name THEN 1 ELSE md.total_attempts[k]]]

\* Utc::now(): the clock never runs backwards; a reading is the latest earlier
\* reading `last`, or one tick later
Utc_now(last) == {last, last + 1}

----------------------------------------------------------------------------
(* Operations *)

\* StateMachine::new(Initial), with MachineMetadata::default()
Init ==
    /\ initial = Initial
    /\ current = Initial
    /\ transitions = <<>>
    /\ history = <<>>
    /\ attempt_count = 0
    /\ metadata = [created_at |-> 0, updated_at |-> 0, current_attempt |-> 0,
                   total_attempts |-> [k \in {} |-> 0]]
    /\ script \in Scripts
    /\ pending = EmptyBag
    /\ ret = [op |-> "new"]
    /\ last_commit = [kind |-> "none", retries |-> 0, run |-> 0]

\* StateMachine::add_transition
add_transition(t) ==
    /\ transitions' = Append(transitions, t)
    /\ ret' = [op |-> "add_transition"]
    /\ UNCHANGED <<machine, script, pending, last_commit>>

\* the caller adds the next transition of its script
AddNext ==
    /\ Len(transitions) < Len(script)
    /\ add_transition(script[Len(transitions) + 1])

\* step that counts a Retry outcome itself instead of leaving it to apply_result
step_counting ==
    /\ BagCardinality(pending) < MaxPending
    /\ LET i == find(transitions, current) IN
         IF i = 0
         THEN /\ ret' = [op |-> "step", ok |-> FALSE, invoked |-> <<>>,
                         error |-> NoTransition(name(current))]
              /\ UNCHANGED <<pending, attempt_count>>
         ELSE \E result \in transitions[i].action :
                IF result.kind = "Err"
                THEN /\ ret' = [op |-> "step", ok |-> FALSE, invoked |-> <<i>>,
                                outcome |-> result, error |-> result.error]
                     /\ UNCHANGED <<pending, attempt_count>>
                ELSE LET out == <<current, step_result(result, attempt_count),
                                  attempt_count>>
                     IN /\ ret' = [op |-> "step", ok |-> TRUE, invoked |-> <<i>>,
                                   outcome |-> result, value |-> out]
                        /\ pending' = pending (+) SetToBag({out})
                        /\ attempt_count' = IF result.kind = "Retry"
                                            THEN attempt_count + 1 ELSE attempt_count
    /\ UNCHANGED <<initial, current, history, metadata, transitions, script, last_commit>>

\* step with an internal retry loop: on a Retry outcome it invokes the action
\* factory once more and reports what the second effect resolved to
step_looping ==
    /\ BagCardinality(pending) < MaxPending
    /\ LET i == find(transitions, current) IN
         IF i = 0
         THEN /\ ret' = [op |-> "step", ok |-> FALSE, invoked |-> <<>>,
                         error |-> NoTransition(name(current))]
              /\ UNCHANGED pending
         ELSE \E first \in transitions[i].action :
              \E result \in IF first.kind = "Retry" THEN transitions[i].action
                            ELSE {first} :
                LET invoked == IF first.kind = "Retry" THEN <<i, i>> ELSE <<i>> IN
                IF result.kind = "Err"
                THEN /\ ret' = [op |-> "step", ok |-> FALSE, invoked |-> invoked,
                                outcome |-> result, error |-> result.error]
                     /\ UNCHANGED pending
                ELSE LET out == <<current, step_result(result, attempt_count),
                                  attempt_count>>
                     IN /\ ret' = [op |-> "step", ok |-> TRUE, invoked |-> invoked,
                                   outcome |-> result, value |-> out]
                        /\ pending' = pending (+) SetToBag({out})
    /\ UNCHANGED <<machine, transitions, script, last_commit>>

\* step that swallows a failure of the effect and reports it as an abort that
\* stays in the current state
step_swallowing ==
    /\ BagCardinality(pending) < MaxPending
    /\ LET i == find(transitions, current) IN
         IF i = 0
         THEN /\ ret' = [op |-> "step", ok |-> FALSE, invoked |-> <<>>,
                         error |-> NoTransition(name(current))]
              /\ UNCHANGED pending
         ELSE \E result \in transitions[i].action :
                LET out == <<current,
                             IF result.kind = "Err"
                             THEN Aborted(result.error.detail, current)
                             ELSE step_result(result, attempt_count),
                             attempt_count>>
                IN /\ ret' = [op |-> "step", ok |-> TRUE, invoked |-> <<i>>,
                              outcome |-> result, value |-> out]
                   /\ pending' = pending (+) SetToBag({out})
    /\ UNCHANGED <<machine, transitions, script, last_commit>>

\* step that hands every result back as a first attempt
step_first_attempt ==
    /\ BagCardinality(pending) < MaxPending
    /\ LET i == find(transitions, current) IN
         IF i = 0
         THEN /\ ret' = [op |-> "step", ok |-> FALSE, invoked |-> <<>>,
                         error |-> NoTransition(name(current))]
              /\ UNCHANGED pending
         ELSE \E result \in transitions[i].action :
                IF result.kind = "Err"
                THEN /\ ret' = [op |-> "step", ok |-> FALSE, invoked |-> <<i>>,
                                outcome |-> result, error |-> result.error]
                     /\ UNCHANGED pending
                ELSE LET out == <<current, step_result(result, attempt_count), 0>>
                     IN /\ ret' = [op |-> "step", ok |-> TRUE, invoked |-> <<i>>,
                                   outcome |-> result, value |-> out]
                        /\ pending' = pending (+) SetToBag({out})
    /\ UNCHANGED <<machine, transitions, script, last_commit>>

\* step that tells a rejecting guard apart from a missing transition
step_reporting_guard ==
    /\ BagCardinality(pending) < MaxPending
    /\ LET i == find(transitions, current) IN
         IF i = 0
         THEN /\ ret' = [op |-> "step", ok |-> FALSE, invoked |-> <<>>,
                         error |-> IF \E k \in 1..Len(transitions) :
                                        transitions[k].from = current
                                  THEN [type |-> "GuardBlocked",
                                        from |-> name(current)]
                                  ELSE NoTransition(name(current))]
              /\ UNCHANGED pending
         ELSE \E result \in transitions[i].action :
                IF result.kind = "Err"
                THEN /\ ret' = [op |-> "step", ok |-> FALSE, invoked |-> <<i>>,
                                outcome |-> result, error |-> result.error]
                     /\ UNCHANGED pending
                ELSE LET out == <<current, step_result(result, attempt_count),
                                  attempt_count>>
                     IN /\ ret' = [op |-> "step", ok |-> TRUE, invoked |-> <<i>>,
                                   outcome |-> result, value |-> out]
                        /\ pending' = pending (+) SetToBag({out})
    /\ UNCHANGED <<machine, transitions, script, last_commit>>

\* step that moves to the `to` the matched transition declares
step_to_declared ==
    /\ BagCardinality(pending) < MaxPending
    /\ LET i == find(transitions, current) IN
         IF i = 0
         THEN /\ ret' = [op |-> "step", ok |-> FALSE, invoked |-> <<>>,
                         error |-> NoTransition(name(current))]
              /\ UNCHANGED pending
         ELSE \E result \in transitions[i].action :
                IF result.kind = "Err"
                THEN /\ ret' = [op |-> "step", ok |-> FALSE, invoked |-> <<i>>,
                                outcome |-> result, error |-> result.error]
                     /\ UNCHANGED pending
                ELSE LET out == <<current,
                                  IF result.kind = "Success"
                                  THEN Transitioned(transitions[i].to)
                                  ELSE step_result(result, attempt_count),
                                  attempt_count>>
                     IN /\ ret' = [op |-> "step", ok |-> TRUE, invoked |-> <<i>>,
                                   outcome |-> result, value |-> out]
                        /\ pending' = pending (+) SetToBag({out})
    /\ UNCHANGED <<machine, transitions, script, last_commit>>

\* StateMachine::step, run by a caller that holds fewer than `limit` results it has
\* not committed yet
\* StateMachine::is_final
machine_is_final == is_final(current)

step_holding(limit) ==
    /\ BagCardinality(pending) < limit
    /\ LET i == find(transitions, current) IN
         IF i = 0
         THEN /\ ret' = [op |-> "step", ok |-> FALSE, invoked |-> <<>>,
                         error |-> NoTransition(name(current))]
              /\ UNCHANGED pending
         ELSE \E result \in transitions[i].action :
                IF result.kind = "Err"
                THEN /\ ret' = [op |-> "step", ok |-> FALSE, invoked |-> <<i>>,
                                outcome |-> result, error |-> result.error]
                     /\ UNCHANGED pending
                ELSE LET out == <<current, step_result(result, attempt_count),
                                  attempt_count>>
                     IN /\ ret' = [op |-> "step", ok |-> TRUE, invoked |-> <<i>>,
                                   outcome |-> result, value |-> out]
                        /\ pending' = pending (+) SetToBag({out})
    /\ UNCHANGED <<machine, transitions, script, last_commit>>

\* StateMachine::step, and the run of the effect it returns.  In what the caller
\* gets back, `invoked` lists the indices of the transitions whose action factory
\* the call invoked, and `outcome` is what the effect resolved to.
step == step_holding(MaxPending)

\* the Transitioned arm without the reset of attempt_count
apply_transitioned_keeping(from_state, new_state, attempt) ==
    /\ Len(history) < MaxHistory
    /\ \E t \in Utc_now(metadata.updated_at) :
         /\ history' = record(history, [from |-> from_state, to |-> new_state,
                                        timestamp |-> t, attempt |-> attempt])
         /\ metadata' = update_metadata(metadata, name(from_state), t)
    /\ current' = new_state
    /\ UNCHANGED <<initial, attempt_count>>

\* the Transitioned arm with current set to the state the step started from
apply_transitioned_swapped(from_state, new_state, attempt) ==
    /\ Len(history) < MaxHistory
    /\ \E t \in Utc_now(metadata.updated_at) :
         /\ history' = record(history, [from |-> from_state, to |-> new_state,
                                        timestamp |-> t, attempt |-> attempt])
         /\ metadata' = update_metadata(metadata, name(from_state), t)
    /\ current' = from_state
    /\ attempt_count' = 0
    /\ UNCHANGED initial

\* the Transitioned arm writing the new record over the last one
apply_transitioned_overwriting(from_state, new_state, attempt) ==
    /\ Len(history) < MaxHistory
    /\ \E t \in Utc_now(metadata.updated_at) :
         /\ history' = record(SubSeq(history, 1, Len(history) - 1),
                              [from |-> from_state, to |-> new_state,
                               timestamp |-> t, attempt |-> attempt])
         /\ metadata' = update_metadata(metadata, name(from_state), t)
    /\ current' = new_state
    /\ attempt_count' = 0
    /\ UNCHANGED initial

\* the Transitioned arm without the history record
apply_transitioned_unrecorded(from_state, new_state, attempt) ==
    /\ Len(history) < MaxHistory
    /\ \E t \in Utc_now(metadata.updated_at) :
         metadata' = update_metadata(metadata, name(from_state), t)
    /\ current' = new_state
    /\ attempt_count' = 0
    /\ UNCHANGED <<initial, history>>

\* apply_result, arm StepResult::Transitioned(new_state).  Both clock readings of
\* the arm fall in the same tick.
apply_transitioned(from_state, new_state, attempt) ==
    /\ Len(history) < MaxHistory
    /\ \E t \in Utc_now(metadata.updated_at) :
         /\ history' = record(history, [from |-> from_state, to |-> new_state,
                                        timestamp |-> t, attempt |-> attempt])
         /\ metadata' = update_metadata(metadata, name(from_state), t)
    /\ current' = new_state
    /\ attempt_count' = 0
    /\ UNCHANGED initial

\* the Retry arm also storing the new count in metadata.current_attempt
apply_retry_touching ==
    /\ attempt_count < MaxAttempts
    /\ attempt_count' = attempt_count + 1
    /\ metadata' = [metadata EXCEPT !.current_attempt = attempt_count + 1]
    /\ UNCHANGED <<initial, current, history>>

\* the Retry arm without the increment
apply_retry_stalled ==
    /\ attempt_count < MaxAttempts
    /\ UNCHANGED <<initial, current, history, attempt_count, metadata>>

\* apply_result, arm StepResult::Retry { .. }
apply_retry ==
    /\ attempt_count < MaxAttempts
    /\ attempt_count' = attempt_count + 1
    /\ UNCHANGED <<initial, current, history, metadata>>

\* the Aborted arm recording the abort in the history
apply_aborted_recording(error_state) ==
    /\ Len(history) < MaxHistory
    /\ history' = record(history, [from |-> current, to |-> error_state,
                                   timestamp |-> metadata.updated_at,
                                   attempt |-> attempt_count])
    /\ current' = error_state
    /\ UNCHANGED <<initial, attempt_count, metadata>>

\* the Aborted arm resetting attempt_count as the Transitioned arm does
apply_aborted_resetting(error_state) ==
    /\ current' = error_state
    /\ attempt_count' = 0
    /\ UNCHANGED <<initial, history, metadata>>

\* the Aborted arm also calling update_metadata for the abandoned transition
apply_aborted_stamping(error_state) ==
    /\ current' = error_state
    /\ \E t \in Utc_now(metadata.updated_at) :
         metadata' = update_metadata(metadata, name(current), t)
    /\ UNCHANGED <<initial, history, attempt_count>>

\* apply_result, arm StepResult::Aborted { error_state, .. }
apply_aborted(error_state) ==
    /\ current' = error_state
    /\ UNCHANGED <<initial, history, attempt_count, metadata>>

\* apply_result that refuses a result whose from_state is not the current state
apply_result_checked(args) ==
    /\ args[1] = current
    /\ LET from_state == args[1]
           result == args[2]
           attempt == args[3]
       IN /\ CASE result.kind = "Transitioned" ->
                      /\ apply_transitioned(from_state, result.state, attempt)
                      /\ last_commit' = [kind |-> "Transitioned", retries |-> 0, run |-> 0]
               [] result.kind = "Retry" ->
                      /\ apply_retry
                      /\ last_commit' = [last_commit EXCEPT !.retries = @ + 1,
                                                            !.run = @ + 1]
               [] result.kind = "Aborted" ->
                      /\ apply_aborted(result.error_state)
                      /\ last_commit' = [kind |-> "Aborted",
                                         error_state |-> result.error_state,
                                         retries |-> 0, run |-> last_commit.run]
          /\ pending' = pending (-) SetToBag({args})
          /\ ret' = [op |-> "apply_result", from_state |-> from_state,
                     result |-> result, attempt |-> attempt]
          /\ UNCHANGED <<transitions, script>>

\* StateMachine::apply_result on a triple the caller holds
apply_result(args) ==
    LET from_state == args[1]
        result == args[2]
        attempt == args[3]
    IN /\ CASE result.kind = "Transitioned" ->
                   /\ apply_transitioned(from_state, result.state, attempt)
                   /\ last_commit' = [kind |-> "Transitioned", retries |-> 0, run |-> 0]
            [] result.kind = "Retry" ->
                   /\ apply_retry
                   /\ last_commit' = [last_commit EXCEPT !.retries = @ + 1,
                                                         !.run = @ + 1]
            [] result.kind = "Aborted" ->
                   /\ apply_aborted(result.error_state)
                   /\ last_commit' = [kind |-> "Aborted",
                                      error_state |-> result.error_state,
                                      retries |-> 0, run |-> last_commit.run]
       /\ pending' = pending (-) SetToBag({args})
       /\ ret' = [op |-> "apply_result", from_state |-> from_state,
                  result |-> result, attempt |-> attempt]
       /\ UNCHANGED <<transitions, script>>

Next ==
    \/ AddNext
    \/ step
    \/ \E args \in BagToSet(pending) : apply_result(args)

Spec == Init /\ [][Next]_vars

\* the same operations on a machine built from a recovery script
RecoveryInit ==
    /\ initial = Initial
    /\ current = Initial
    /\ transitions = <<>>
    /\ history = <<>>
    /\ attempt_count = 0
    /\ metadata = [created_at |-> 0, updated_at |-> 0, current_attempt |-> 0,
                   total_attempts |-> [k \in {} |-> 0]]
    /\ script \in RecoveryScripts
    /\ pending = EmptyBag
    /\ ret = [op |-> "new"]
    /\ last_commit = [kind |-> "none", retries |-> 0, run |-> 0]

RecoverySpec == RecoveryInit /\ [][Next]_vars

\* the same machine with a caller that steps again before it commits
StaleScripts == {<<ToProcessing, ToComplete>>, <<Effectful, ToComplete>>}

StaleInit ==
    /\ initial = Initial
    /\ current = Initial
    /\ transitions = <<>>
    /\ history = <<>>
    /\ attempt_count = 0
    /\ metadata = [created_at |-> 0, updated_at |-> 0, current_attempt |-> 0,
                   total_attempts |-> [k \in {} |-> 0]]
    /\ script \in StaleScripts
    /\ pending = EmptyBag
    /\ ret = [op |-> "new"]
    /\ last_commit = [kind |-> "none", retries |-> 0, run |-> 0]

StaleNext ==
    \/ AddNext
    \/ step_holding(MaxStale)
    \/ \E args \in BagToSet(pending) : apply_result(args)

StaleSpec == StaleInit /\ [][StaleNext]_vars

----------------------------------------------------------------------------
(* StateHistory used on its own: a caller builds a history value with new()   *)
(* and record(), keeping it in `history`, and reads it with get_path().       *)

\* the StateTransition values the caller records
StateTransitions ==
    [from : States, to : States, timestamp : {0}, attempt : {0, 1}]

rest == <<initial, current, transitions, attempt_count, metadata,
          script, pending, last_commit>>

\* StateHistory::new()
HistoryInit ==
    /\ history = <<>>
    /\ ret = [op |-> "new"]
    /\ initial = Initial
    /\ current = Initial
    /\ transitions = <<>>
    /\ attempt_count = 0
    /\ metadata = [created_at |-> 0, updated_at |-> 0, current_attempt |-> 0,
                   total_attempts |-> [k \in {} |-> 0]]
    /\ script = <<>>
    /\ pending = EmptyBag
    /\ last_commit = [kind |-> "none", retries |-> 0, run |-> 0]

\* history.record(transition): `history` is borrowed as &self
history_record ==
    /\ Len(history) < MaxRecords
    /\ \E t \in StateTransitions :
         ret' = [op |-> "record", transition |-> t, value |-> record(history, t)]
    /\ UNCHANGED <<history, rest>>

\* history = history.record(transition): the caller keeps the returned history
history_rebind ==
    /\ ret.op = "record"
    /\ history' = ret.value
    /\ ret' = [op |-> "rebind"]
    /\ UNCHANGED rest

\* history.get_path()
history_get_path ==
    /\ ret' = [op |-> "get_path", value |-> get_path(history)]
    /\ UNCHANGED <<history, rest>>

HistoryNext ==
    \/ history_record
    \/ history_rebind
    \/ history_get_path

HistorySpec == HistoryInit /\ [][HistoryNext]_vars

\* StateHistory::duration: an Option, as the empty sequence or a sequence of one;
\* to_std() fails on a negative signed duration and ok() turns that into None
duration(h) ==
    IF h # <<>>
    THEN LET signed == h[Len(h)].timestamp - h[1].timestamp
         IN IF signed >= 0 THEN <<signed>> ELSE <<>>
    ELSE <<>>

\* records with the timestamps their makers chose
Timestamps == 0..2
TimedTransitions ==
    [from : {Initial, Processing}, to : {Processing}, timestamp : Timestamps,
     attempt : {1}]

\* history.record(transition) with a transition of any timestamp
history_record_timed ==
    /\ Len(history) < MaxRecords
    /\ \E t \in TimedTransitions :
         ret' = [op |-> "record", transition |-> t, value |-> record(history, t)]
    /\ UNCHANGED <<history, rest>>

\* history.duration()
history_duration ==
    /\ ret' = [op |-> "duration", value |-> duration(history)]
    /\ UNCHANGED <<history, rest>>

DurationNext ==
    \/ history_record_timed
    \/ history_rebind
    \/ history_duration

DurationSpec == HistoryInit /\ [][DurationNext]_vars

----------------------------------------------------------------------------
(* Checkpoints and their two encodings *)

\* checkpoint::CHECKPOINT_VERSION
CHECKPOINT_VERSION == 1

\* the versions a snapshot handed to the engine may carry: older, current, newer
Versions == 0..(CHECKPOINT_VERSION + 1)

\* the identifiers Uuid::new_v4() may draw
Uuids == {"uuid-a", "uuid-b"}

\* the clock readings that occur in a run
Ticks == 0..(MaxHistory + 1)

\* CheckpointError
UnsupportedVersion(found, supported) ==
    [type |-> "UnsupportedVersion", found |-> found, supported |-> supported]
DeserializationFailed == [type |-> "DeserializationFailed"]

\* the orders in which a HashMap with the keys K may be iterated
Orders(K) ==
    {o \in [1..Cardinality(K) -> K] : \A k \in K : \E i \in DOMAIN o : o[i] = k}

\* DateTime<Utc> as chrono's serde writes and reads it: an RFC 3339 string
to_rfc3339(t) == ToString(t)
parse_rfc3339(str) ==
    IF \E t \in Ticks : to_rfc3339(t) = str
    THEN CHOOSE t \in Ticks : to_rfc3339(t) = str
    ELSE -1

\* a unit variant of the state enum as serde's derive names it
variant(s) ==
    CASE s = Initial -> "Initial"
      [] s = Processing -> "Processing"
      [] s = Complete -> "Complete"
      [] s = Failed -> "Failed"
parse_variant(str) ==
    IF \E s \in States : variant(s) = str
    THEN CHOOSE s \in States : variant(s) = str
    ELSE -1

(* JSON text, as the tree of its tokens: numbers, strings, arrays of values,  *)
(* and objects as lists of <<key, value>> members in the order written.       *)
JNum(n) == [json |-> "number", n |-> n]
JStr(str) == [json |-> "string", s |-> str]
JArr(items) == [json |-> "array", items |-> items]
JObj(members) == [json |-> "object", members |-> members]

\* the value of the member `key` of a JSON object
member(obj, key) ==
    LET i == CHOOSE i \in 1..Len(obj.members) : obj.members[i][1] = key
    IN obj.members[i][2]

\* Serialize for StateTransition, MachineMetadata (its map written in the
\* iteration order `order`) and Checkpoint, into JSON
transition_to_json(t) ==
    JObj(<< <<"from", JStr(variant(t.from))>>,
            <<"to", JStr(variant(t.to))>>,
            <<"timestamp", JStr(to_rfc3339(t.timestamp))>>,
            <<"attempt", JNum(t.attempt)>> >>)

metadata_to_json(md, order) ==
    JObj(<< <<"created_at", JStr(to_rfc3339(md.created_at))>>,
            <<"updated_at", JStr(to_rfc3339(md.updated_at))>>,
            <<"current_attempt", JNum(md.current_attempt)>>,
            <<"total_attempts",
              JObj([i \in DOMAIN order |->
                       <<order[i], JNum(md.total_attempts[order[i]])>>])>> >>)

checkpoint_to_json(cp, order) ==
    JObj(<< <<"version", JNum(cp.version)>>,
            <<"id", JStr(cp.id)>>,
            <<"timestamp", JStr(to_rfc3339(cp.timestamp))>>,
            <<"initial_state", JStr(variant(cp.initial_state))>>,
            <<"current_state", JStr(variant(cp.current_state))>>,
            <<"history",
              JObj(<< <<"transitions",
                        JArr([i \in DOMAIN cp.history |->
                                 transition_to_json(cp.history[i])])>> >>)>>,
            <<"metadata", metadata_to_json(cp.metadata, order)>> >>)

\* serde_json::to_string_pretty(&checkpoint): the texts it may produce
serde_json_to_string(cp) ==
    {checkpoint_to_json(cp, order) : order \in Orders(DOMAIN cp.metadata.total_attempts)}

\* Deserialize for StateTransition, MachineMetadata and Checkpoint, from JSON
transition_from_json(j) ==
    [from |-> parse_variant(member(j, "from").s),
     to |-> parse_variant(member(j, "to").s),
     timestamp |-> parse_rfc3339(member(j, "timestamp").s),
     attempt |-> member(j, "attempt").n]

metadata_from_json(j) ==
    LET counts == member(j, "total_attempts").members
        keys == {counts[i][1] : i \in DOMAIN counts}
    IN [created_at |-> parse_rfc3339(member(j, "created_at").s),
        updated_at |-> parse_rfc3339(member(j, "updated_at").s),
        current_attempt |-> member(j, "current_attempt").n,
        total_attempts |-> [k \in keys |-> member(member(j, "total_attempts"), k).n]]

checkpoint_from_json(j) ==
    LET records == member(member(j, "history"), "transitions").items
    IN [version |-> member(j, "version").n,
        id |-> member(j, "id").s,
        timestamp |-> parse_rfc3339(member(j, "timestamp").s),
        initial_state |-> parse_variant(member(j, "initial_state").s),
        current_state |-> parse_variant(member(j, "current_state").s),
        history |-> [i \in DOMAIN records |-> transition_from_json(records[i])],
        metadata |-> metadata_from_json(member(j, "metadata"))]

\* serde_json::from_str::<Checkpoint<S>>: fails unless the text is an object with
\* the seven members of a checkpoint, holding states and times that parse
serde_json_from_str(j) ==
    IF /\ j.json = "object"
       /\ \A key \in {"version", "id", "timestamp", "initial_state", "current_state",
                      "history", "metadata"} :
             \E i \in 1..Len(j.members) : j.members[i][1] = key
       /\ LET cp == checkpoint_from_json(j)
          IN /\ cp.version \in Nat
             /\ cp.timestamp \in Ticks
             /\ cp.initial_state \in States
             /\ cp.current_state \in States
    THEN [ok |-> TRUE, value |-> checkpoint_from_json(j)]
    ELSE [ok |-> FALSE, error |-> DeserializationFailed]

(* bincode output, as the list of its fixed-width words and length-prefixed   *)
(* strings: a struct is its fields in order without names, a unit variant is  *)
(* its u32 index, a usize is a u64, a Vec or a HashMap is a u64 count         *)
(* followed by its elements.                                                  *)
U32(v) == [u32 |-> v]
U64(v) == [u64 |-> v]
Str(str) == [str |-> str]

\* variant indices counted from the last variant instead of the first
variant_index_reversed(s) == Failed - s

\* the index of a unit variant of the state enum
variant_index(s) == s

\* bincode::serialize(&checkpoint) with the map iterated in the order `order`
checkpoint_to_bincode(cp, order) ==
    LET h == cp.history
        md == cp.metadata
    IN <<U32(cp.version), Str(cp.id), Str(to_rfc3339(cp.timestamp)),
         U32(variant_index(cp.initial_state)), U32(variant_index(cp.current_state)),
         U64(Len(h))>>
       \o [k \in 1..(4 * Len(h)) |->
              LET t == h[(k - 1) \div 4 + 1]
              IN CASE (k - 1) % 4 = 0 -> U32(variant_index(t.from))
                   [] (k - 1) % 4 = 1 -> U32(variant_index(t.to))
                   [] (k - 1) % 4 = 2 -> Str(to_rfc3339(t.timestamp))
                   [] (k - 1) % 4 = 3 -> U64(t.attempt)]
       \o <<Str(to_rfc3339(md.created_at)), Str(to_rfc3339(md.updated_at)),
            U64(md.current_attempt), U64(Len(order))>>
       \o [k \in 1..(2 * Len(order)) |->
              LET key == order[(k - 1) \div 2 + 1]
              IN IF (k - 1) % 2 = 0 THEN Str(key) ELSE U64(md.total_attempts[key])]

\* bincode::serialize(&checkpoint): the byte strings it may produce
bincode_serialize(cp) ==
    {checkpoint_to_bincode(cp, order) : order \in Orders(DOMAIN cp.metadata.total_attempts)}

\* the checkpoint read back from bincode words, field by field
checkpoint_from_bincode(b) ==
    LET n == b[6].u64
        m == 6 + 4 * n
        count == b[m + 4].u64
        keys == {b[m + 4 + 2 * i - 1].str : i \in 1..count}
    IN [version |-> b[1].u32,
        id |-> b[2].str,
        timestamp |-> parse_rfc3339(b[3].str),
        initial_state |-> b[4].u32,
        current_state |-> b[5].u32,
        history |-> [i \in 1..n |->
                        [from |-> b[6 + 4 * (i - 1) + 1].u32,
                         to |-> b[6 + 4 * (i - 1) + 2].u32,
                         timestamp |-> parse_rfc3339(b[6 + 4 * (i - 1) + 3].str),
                         attempt |-> b[6 + 4 * (i - 1) + 4].u64]],
        metadata |-> [created_at |-> parse_rfc3339(b[m + 1].str),
                      updated_at |-> parse_rfc3339(b[m + 2].str),
                      current_attempt |-> b[m + 3].u64,
                      total_attempts |->
                          [k \in keys |->
                              LET i == CHOOSE i \in 1..count : b[m + 4 + 2 * i - 1].str = k
                              IN b[m + 4 + 2 * i].u64]]]

\* bincode::deserialize::<Checkpoint<S>>: fails when the words run out before the
\* checkpoint is complete or a state index is not a variant
bincode_deserialize(b) ==
    IF /\ Len(b) >= 6
       /\ Len(b) >= 6 + 4 * b[6].u64 + 4
       /\ Len(b) >= 6 + 4 * b[6].u64 + 4 + 2 * b[6 + 4 * b[6].u64 + 4].u64
       /\ LET cp == checkpoint_from_bincode(b)
          IN /\ cp.timestamp \in Ticks
             /\ cp.initial_state \in States
             /\ cp.current_state \in States
    THEN [ok |-> TRUE, value |-> checkpoint_from_bincode(b)]
    ELSE [ok |-> FALSE, error |-> DeserializationFailed]

----------------------------------------------------------------------------
(* Checkpoint operations *)

\* a checkpoint that takes the initial state for the current one
checkpoint_of_initial(id, t) ==
    [version |-> CHECKPOINT_VERSION, id |-> id, timestamp |-> t,
     initial_state |-> initial, current_state |-> initial,
     history |-> history, metadata |-> metadata]

\* the Checkpoint that StateMachine::checkpoint builds when Uuid::new_v4() draws
\* `id` and the clock reads `t`
checkpoint_of(id, t) ==
    [version |-> CHECKPOINT_VERSION, id |-> id, timestamp |-> t,
     initial_state |-> initial, current_state |-> current,
     history |-> history, metadata |-> metadata]

\* the values self.checkpoint() may return
Checkpoints ==
    {checkpoint_of(id, t) : id \in Uuids, t \in Utc_now(metadata.updated_at)}

\* from_checkpoint that accepts only snapshots of exactly the supported version
from_checkpoint_exact(checkpoint, ts) ==
    IF checkpoint.version # CHECKPOINT_VERSION
    THEN [ok |-> FALSE,
          error |-> UnsupportedVersion(checkpoint.version, CHECKPOINT_VERSION)]
    ELSE [ok |-> TRUE,
          machine |-> [initial |-> checkpoint.initial_state,
                       current |-> checkpoint.current_state,
                       transitions |-> ts,
                       history |-> checkpoint.history,
                       attempt_count |-> 0,
                       metadata |-> checkpoint.metadata]]

\* from_checkpoint refusing a machine without transitions
from_checkpoint_validating(checkpoint, ts) ==
    IF checkpoint.version > CHECKPOINT_VERSION
    THEN [ok |-> FALSE,
          error |-> UnsupportedVersion(checkpoint.version, CHECKPOINT_VERSION)]
    ELSE IF ts = <<>>
    THEN [ok |-> FALSE, error |-> [type |-> "ValidationFailed"]]
    ELSE [ok |-> TRUE,
          machine |-> [initial |-> checkpoint.initial_state,
                       current |-> checkpoint.current_state,
                       transitions |-> ts,
                       history |-> checkpoint.history,
                       attempt_count |-> 0,
                       metadata |-> checkpoint.metadata]]

\* StateMachine::from_checkpoint
from_checkpoint(checkpoint, ts) ==
    IF checkpoint.version > CHECKPOINT_VERSION
    THEN [ok |-> FALSE,
          error |-> UnsupportedVersion(checkpoint.version, CHECKPOINT_VERSION)]
    ELSE [ok |-> TRUE,
          machine |-> [initial |-> checkpoint.initial_state,
                       current |-> checkpoint.current_state,
                       transitions |-> ts,
                       history |-> checkpoint.history,
                       attempt_count |-> 0,
                       metadata |-> checkpoint.metadata]]

\* from_json reporting a text that does not decode as a version it does not support
from_json_untyped(json, ts) ==
    LET decoded == serde_json_from_str(json)
    IN IF ~decoded.ok
       THEN [ok |-> FALSE, error |-> UnsupportedVersion(0, CHECKPOINT_VERSION)]
       ELSE from_checkpoint(decoded.value, ts)

\* StateMachine::from_json
from_json(json, ts) ==
    LET decoded == serde_json_from_str(json)
    IN IF ~decoded.ok THEN decoded ELSE from_checkpoint(decoded.value, ts)

\* StateMachine::from_binary
from_binary(bytes, ts) ==
    LET decoded == bincode_deserialize(bytes)
    IN IF ~decoded.ok THEN decoded ELSE from_checkpoint(decoded.value, ts)

\* inputs that are no checkpoint: a text that lost its last member, bytes that
\* lost their last word
cut_text(json) == JObj(SubSeq(json.members, 1, Len(json.members) - 1))
cut_bytes(bytes) == SubSeq(bytes, 1, Len(bytes) - 1)

\* the transitions a caller hands to from_checkpoint: those of the machine the
\* snapshot was taken of, none at all, or those of another machine
SuppliedTransitions == {transitions, <<>>, <<Recovering>>}

\* what StateMachine::step returns on a machine given as a value
step_on(m) ==
    LET i == find(m.transitions, m.current)
    IN IF i = 0
       THEN {[ok |-> FALSE, error |-> NoTransition(name(m.current))]}
       ELSE {IF result.kind = "Err"
             THEN [ok |-> FALSE, error |-> result.error]
             ELSE [ok |-> TRUE,
                   value |-> <<m.current, step_result(result, m.attempt_count),
                               m.attempt_count>>] :
                result \in m.transitions[i].action}

\* what the checkpoint operations leave alone besides `ret`
kept == <<machine, transitions, script, pending, last_commit>>

\* StateMachine::checkpoint
checkpoint ==
    /\ \E cp \in Checkpoints : ret' = [op |-> "checkpoint", value |-> cp]
    /\ UNCHANGED kept

\* StateMachine::to_json; `checkpoint` is the checkpoint the text was made from
to_json ==
    /\ \E cp \in Checkpoints :
       \E text \in serde_json_to_string(cp) :
          ret' = [op |-> "to_json", ok |-> TRUE, checkpoint |-> cp, value |-> text]
    /\ UNCHANGED kept

\* StateMachine::to_binary; `checkpoint` is the checkpoint the bytes were made from
to_binary ==
    /\ \E cp \in Checkpoints :
       \E bytes \in bincode_serialize(cp) :
          ret' = [op |-> "to_binary", ok |-> TRUE, checkpoint |-> cp, value |-> bytes]
    /\ UNCHANGED kept

(* The caller restores a machine from the snapshot it holds, with the         *)
(* transitions of its machine.  The snapshot is the one just taken, or the    *)
(* same content written by an engine whose format version is `found`.         *)
RestoreCheckpoint ==
    /\ ret.op = "checkpoint"
    /\ \E found \in Versions :
       \E ts \in SuppliedTransitions :
          ret' = [op |-> "from_checkpoint", found |-> found, intact |-> TRUE,
                  given |-> ts,
                  result |-> from_checkpoint([ret.value EXCEPT !.version = found], ts)]
    /\ UNCHANGED kept

RestoreJson ==
    /\ ret.op = "to_json"
    /\ \E found \in Versions :
       \E text \in IF found = CHECKPOINT_VERSION THEN {ret.value}
                   ELSE serde_json_to_string([ret.checkpoint EXCEPT !.version = found]) :
       \E cut \in BOOLEAN :
          ret' = [op |-> "from_json", found |-> found, intact |-> ~cut,
                  given |-> transitions,
                  result |-> from_json(IF cut THEN cut_text(text) ELSE text,
                                       transitions)]
    /\ UNCHANGED kept

RestoreBinary ==
    /\ ret.op = "to_binary"
    /\ \E found \in Versions :
       \E bytes \in IF found = CHECKPOINT_VERSION THEN {ret.value}
                    ELSE bincode_serialize([ret.checkpoint EXCEPT !.version = found]) :
       \E cut \in BOOLEAN :
          ret' = [op |-> "from_binary", found |-> found, intact |-> ~cut,
                  given |-> transitions,
                  result |-> from_binary(IF cut THEN cut_bytes(bytes) ELSE bytes,
                                         transitions)]
    /\ UNCHANGED kept

CheckpointNext ==
    \/ Next
    \/ checkpoint
    \/ to_json
    \/ to_binary
    \/ RestoreCheckpoint
    \/ RestoreJson
    \/ RestoreBinary

\* the machines the callers checkpoint
CheckpointScripts ==
    { <<ToProcessing, ToComplete>>,
      <<Retrying>>,
      <<Retrying, Aborting, ToComplete>>,
      <<Effectful, ToComplete>> }

CheckpointInit ==
    /\ Init
    /\ script \in CheckpointScripts

CheckpointSpec == CheckpointInit /\ [][CheckpointNext]_vars

----------------------------------------------------------------------------
(* Enforcement: EnforcementBuilder, EnforcementRules, TransitionContext.      *)
(* Durations and clock readings are whole seconds.                            *)

\* ViolationStrategy
ViolationStrategies == {"Abort", "Retry", "IgnoreAndLog"}

\* ViolationError
MaxAttemptsExceeded(max, attempt) ==
    [type |-> "MaxAttemptsExceeded", max |-> max, current |-> attempt]
TimeoutExceeded(timeout, elapsed_time) ==
    [type |-> "TimeoutExceeded", timeout |-> timeout, elapsed |-> elapsed_time]
CustomCheckFailed(message) == [type |-> "CustomCheckFailed", message |-> message]

\* Validation<(), NonEmptyVec<ViolationError>>
ValidationSuccess == [valid |-> TRUE]
ValidationFailure(errors) == [valid |-> FALSE, errors |-> errors]

\* elapsed() with the absolute value of the difference
elapsed_abs(context, now) ==
    IF now - context.started_at >= 0 THEN now - context.started_at
    ELSE context.started_at - now

\* TransitionContext::elapsed when Utc::now() reads `now`: the signed difference,
\* which to_std() refuses when negative, and then Duration::ZERO
elapsed(context, now) ==
    LET signed == now - context.started_at
    IN IF signed >= 0 THEN signed ELSE 0

\* the predicates callers pass to require_pred
Predicates == {"always_false", "always_true"}
predicate(p, context) ==
    CASE p = "always_false" -> FALSE
      [] p = "always_true" -> TRUE

\* the check functions callers pass to require: one that wants a positive attempt,
\* and one that reports two violations at once when the attempt is below 2
CheckFns == {"attempt_positive", "attempt_at_least_two"}
check_fn(c, context) ==
    CASE c = "attempt_positive" ->
             IF context.attempt > 0 THEN ValidationSuccess
             ELSE ValidationFailure(<<CustomCheckFailed("Attempt must be > 0")>>)
      [] c = "attempt_at_least_two" ->
             IF context.attempt >= 2 THEN ValidationSuccess
             ELSE ValidationFailure(<<CustomCheckFailed("Attempt too low"),
                                      CustomCheckFailed("Not retried yet")>>)

\* a registered ValidationCheck applied to a context
run_check(check_entry, context) ==
    IF check_entry.kind = "require_pred"
    THEN IF predicate(check_entry.predicate, context) THEN ValidationSuccess
         ELSE ValidationFailure(<<CustomCheckFailed(check_entry.error_msg)>>)
    ELSE check_fn(check_entry.check, context)

\* the errors of a list of validations, in the order of the list
RECURSIVE errors_of(_)
errors_of(checks) ==
    IF checks = <<>> THEN <<>>
    ELSE (IF Head(checks).valid THEN <<>> ELSE Head(checks).errors)
         \o errors_of(Tail(checks))

\* all_vec that stops at the first failure
all_vec_fail_fast(checks) ==
    IF \A i \in DOMAIN checks : checks[i].valid THEN ValidationSuccess
    ELSE LET i == CHOOSE i \in DOMAIN checks :
                     /\ ~checks[i].valid
                     /\ \A j \in 1..(i - 1) : checks[j].valid
         IN ValidationFailure(checks[i].errors)

\* Validation::all_vec(checks).map(|_| ())
all_vec(checks) ==
    IF errors_of(checks) = <<>> THEN ValidationSuccess
    ELSE ValidationFailure(errors_of(checks))

\* the max-attempts rule with an inclusive comparison
attempts_check_inclusive(rules, context) ==
    IF rules.max_attempts # None
    THEN <<IF context.attempt >= rules.max_attempts[1]
           THEN ValidationFailure(
                    <<MaxAttemptsExceeded(rules.max_attempts[1], context.attempt)>>)
           ELSE ValidationSuccess>>
    ELSE <<>>

\* enforce, "Check max attempts": the checks this rule pushes
attempts_check(rules, context) ==
    IF rules.max_attempts # None
    THEN <<IF context.attempt > rules.max_attempts[1]
           THEN ValidationFailure(
                    <<MaxAttemptsExceeded(rules.max_attempts[1], context.attempt)>>)
           ELSE ValidationSuccess>>
    ELSE <<>>

\* enforce, "Check timeout": the checks this rule pushes
timeout_check(rules, context, now) ==
    IF rules.timeout # None
    THEN <<IF elapsed(context, now) > rules.timeout[1]
           THEN ValidationFailure(
                    <<TimeoutExceeded(rules.timeout[1], elapsed(context, now))>>)
           ELSE ValidationSuccess>>
    ELSE <<>>

\* enforce without the loop over required_checks
custom_checks_skipped(rules, context) == <<>>

\* enforce, "Run custom checks": the checks pushed for required_checks
custom_checks(rules, context) ==
    [i \in DOMAIN rules.required_checks |->
        run_check(rules.required_checks[i], context)]

\* enforce running the custom checks before the built-in rules
enforce_customs_first(rules, context, now) ==
    all_vec(custom_checks(rules, context) \o attempts_check(rules, context)
            \o timeout_check(rules, context, now))

\* enforce that lets everything pass under the IgnoreAndLog strategy
enforce_acting(rules, context, now) ==
    IF rules.on_violation = "IgnoreAndLog" THEN ValidationSuccess
    ELSE all_vec(attempts_check(rules, context) \o timeout_check(rules, context, now)
                 \o custom_checks(rules, context))

\* EnforcementRules::enforce when the clock reads `now`
enforce(rules, context, now) ==
    all_vec(attempts_check(rules, context) \o timeout_check(rules, context, now)
            \o custom_checks(rules, context))

----------------------------------------------------------------------------
(* Enforcement operations.  The builder is passed along by value: each        *)
(* method returns it, so it is the `builder` the last operation returned;     *)
(* build() returns the rules, which the caller keeps as `rules` together with *)
(* the `context` it makes for them.                                           *)

\* the values callers give to the builder and put into contexts
MaxAttemptsValues == {0, 3}
TimeoutValues == {5}
Contexts ==
    [from : {Initial}, to : {Processing}, attempt : {0, 1, 3, 4, 5},
     started_at : {0, 4, 10}]
Nows == {0, 5, 10}

\* EnforcementBuilder::new()
EnforceInit ==
    /\ ret = [op |-> "new",
              builder |-> [max_attempts |-> None, timeout |-> None,
                           required_checks |-> <<>>, on_violation |-> "Abort"]]
    /\ history = <<>>
    /\ initial = Initial
    /\ current = Initial
    /\ transitions = <<>>
    /\ attempt_count = 0
    /\ metadata = [created_at |-> 0, updated_at |-> 0, current_attempt |-> 0,
                   total_attempts |-> [k \in {} |-> 0]]
    /\ script = <<>>
    /\ pending = EmptyBag
    /\ last_commit = [kind |-> "none", retries |-> 0, run |-> 0]

HasBuilder == "builder" \in DOMAIN ret
HasRules == "rules" \in DOMAIN ret

\* EnforcementBuilder::max_attempts
builder_max_attempts ==
    /\ HasBuilder
    /\ \E n \in MaxAttemptsValues :
          ret' = [op |-> "max_attempts", arg |-> n,
                  builder |-> [ret.builder EXCEPT !.max_attempts = Some(n)]]
    /\ UNCHANGED <<history, rest>>

\* EnforcementBuilder::timeout
builder_timeout ==
    /\ HasBuilder
    /\ \E limit \in TimeoutValues :
          ret' = [op |-> "timeout", arg |-> limit,
                  builder |-> [ret.builder EXCEPT !.timeout = Some(limit)]]
    /\ UNCHANGED <<history, rest>>

\* EnforcementBuilder::require
builder_require ==
    /\ HasBuilder
    /\ Len(ret.builder.required_checks) < MaxChecks
    /\ \E c \in CheckFns :
          ret' = [op |-> "require", arg |-> c,
                  builder |-> [ret.builder EXCEPT !.required_checks =
                                  Append(@, [kind |-> "require", check |-> c])]]
    /\ UNCHANGED <<history, rest>>

\* EnforcementBuilder::require_pred; the message tells which predicate failed
builder_require_pred ==
    /\ HasBuilder
    /\ Len(ret.builder.required_checks) < MaxChecks
    /\ \E p \in Predicates :
          ret' = [op |-> "require_pred", arg |-> p,
                  builder |-> [ret.builder EXCEPT !.required_checks =
                                  Append(@, [kind |-> "require_pred", predicate |-> p,
                                             error_msg |-> p])]]
    /\ UNCHANGED <<history, rest>>

\* EnforcementBuilder::on_violation
builder_on_violation ==
    /\ HasBuilder
    /\ \E strategy \in ViolationStrategies :
          ret' = [op |-> "on_violation", arg |-> strategy,
                  builder |-> [ret.builder EXCEPT !.on_violation = strategy]]
    /\ UNCHANGED <<history, rest>>

\* EnforcementBuilder::build
builder_build ==
    /\ HasBuilder
    /\ ret' = [op |-> "build",
               rules |-> [max_attempts |-> ret.builder.max_attempts,
                          timeout |-> ret.builder.timeout,
                          required_checks |-> ret.builder.required_checks,
                          on_violation |-> ret.builder.on_violation]]
    /\ UNCHANGED <<history, rest>>

\* TransitionContext { from, to, attempt, started_at }: the caller makes a context
new_context ==
    /\ HasRules
    /\ \E context \in Contexts :
          ret' = [op |-> "context", rules |-> ret.rules, context |-> context]
    /\ UNCHANGED <<history, rest>>

HasContext == "context" \in DOMAIN ret

\* EnforcementRules::enforce on the context the caller holds
rules_enforce ==
    /\ HasRules
    /\ HasContext
    /\ \E now \in Nows :
          ret' = [op |-> "enforce", rules |-> ret.rules, context |-> ret.context,
                  now |-> now, value |-> enforce(ret.rules, ret.context, now)]
    /\ UNCHANGED <<history, rest>>

\* EnforcementRules::violation_strategy
rules_violation_strategy ==
    /\ HasRules
    /\ ret' = [op |-> "violation_strategy", rules |-> ret.rules,
               value |-> ret.rules.on_violation]
    /\ UNCHANGED <<history, rest>>

\* TransitionContext::elapsed on the context the caller holds
context_elapsed ==
    /\ HasContext
    /\ \E now \in Nows :
          ret' = [op |-> "elapsed", context |-> ret.context, now |-> now,
                  value |-> elapsed(ret.context, now)]
    /\ UNCHANGED <<history, rest>>

EnforceNext ==
    \/ builder_max_attempts
    \/ builder_timeout
    \/ builder_require
    \/ builder_require_pred
    \/ builder_on_violation
    \/ builder_build
    \/ new_context
    \/ rules_enforce
    \/ rules_violation_strategy
    \/ context_elapsed

EnforceSpec == EnforceInit /\ [][EnforceNext]_vars

----------------------------------------------------------------------------
(* The builders of machines and transitions.  A builder is passed along by    *)
(* value: each method returns it, so it is the `builder` the last operation   *)
(* returned; a method that fails returns the error instead and the builder is *)
(* gone.                                                                      *)

\* Result
Ok(v) == [ok |-> TRUE, value |-> v]
Err(e) == [ok |-> FALSE, error |-> e]

\* BuildError
MissingInitialState == "MissingInitialState"
NoTransitions == "NoTransitions"
MissingFromState == "MissingFromState"
MissingToState == "MissingToState"
MissingAction == "MissingAction"

\* TransitionBuilder::build
transition_build(tb) ==
    IF tb.from = None THEN Err(MissingFromState)
    ELSE IF tb.to = None THEN Err(MissingToState)
    ELSE IF tb.action = None THEN Err(MissingAction)
    ELSE Ok([from |-> tb.from[1], to |-> tb.to[1], guard |-> tb.guard,
             action |-> tb.action[1], enforcement |-> tb.enforcement])

\* StateMachine::new as a value
machine_new(initial_state) ==
    [initial |-> initial_state, current |-> initial_state, transitions |-> <<>>,
     history |-> <<>>, attempt_count |-> 0,
     metadata |-> [created_at |-> 0, updated_at |-> 0, current_attempt |-> 0,
                   total_attempts |-> [k \in {} |-> 0]]]

\* the loop of build(): add_transition for each transition of the builder in turn
RECURSIVE add_all(_, _)
add_all(m, ts) ==
    IF ts = <<>> THEN m
    ELSE add_all([m EXCEPT !.transitions = Append(@, Head(ts))], Tail(ts))

\* build() looking at the transitions before the initial state
build_transitions_first(builder) ==
    IF builder.transitions = <<>> THEN Err(NoTransitions)
    ELSE IF builder.initial = None THEN Err(MissingInitialState)
    ELSE Ok(add_all(machine_new(builder.initial[1]), builder.transitions))

\* StateMachineBuilder::build
build(builder) ==
    IF builder.initial = None THEN Err(MissingInitialState)
    ELSE IF builder.transitions = <<>> THEN Err(NoTransitions)
    ELSE Ok(add_all(machine_new(builder.initial[1]), builder.transitions))

\* what callers hand to the builder
BuiltTransitions == {ToProcessing, ToComplete, Shortcut}
BuiltLists == {<<ToProcessing, ToComplete>>, <<ToComplete, ToProcessing>>, <<>>}
TransitionBuilders ==
    { [from |-> Some(Processing), to |-> Some(Complete), guard |-> NoGuard,
       action |-> Some(SucceedComplete), enforcement |-> None],
      [from |-> Some(Initial), to |-> Some(Processing), guard |-> "not_final",
       action |-> Some(SucceedProcessing), enforcement |-> None],
      [from |-> None, to |-> Some(Complete), guard |-> NoGuard,
       action |-> Some(SucceedComplete), enforcement |-> None],
      [from |-> Some(Initial), to |-> None, guard |-> NoGuard, action |-> None, enforcement |-> None],
      [from |-> Some(Initial), to |-> Some(Processing), guard |-> NoGuard,
       action |-> None, enforcement |-> None] }

\* StateMachineBuilder::new
BuilderInit ==
    /\ ret = [op |-> "new", builder |-> [initial |-> None, transitions |-> <<>>]]
    /\ history = <<>>
    /\ initial = Initial
    /\ current = Initial
    /\ transitions = <<>>
    /\ attempt_count = 0
    /\ metadata = [created_at |-> 0, updated_at |-> 0, current_attempt |-> 0,
                   total_attempts |-> [k \in {} |-> 0]]
    /\ script = <<>>
    /\ pending = EmptyBag
    /\ last_commit = [kind |-> "none", retries |-> 0, run |-> 0]

\* StateMachineBuilder::initial
machine_builder_initial ==
    /\ HasBuilder
    /\ \E state \in States :
          ret' = [op |-> "initial", arg |-> state,
                  builder |-> [ret.builder EXCEPT !.initial = Some(state)]]
    /\ UNCHANGED <<history, rest>>

\* StateMachineBuilder::transition
machine_builder_transition ==
    /\ HasBuilder
    /\ Len(ret.builder.transitions) < MaxBuilt
    /\ \E tb \in TransitionBuilders :
          LET transition == transition_build(tb)
          IN ret' = IF transition.ok
                    THEN [op |-> "transition", arg |-> tb,
                          builder |-> [ret.builder EXCEPT !.transitions =
                                          Append(@, transition.value)]]
                    ELSE [op |-> "transition", arg |-> tb, result |-> transition]
    /\ UNCHANGED <<history, rest>>

\* StateMachineBuilder::add_transition
machine_builder_add_transition ==
    /\ HasBuilder
    /\ Len(ret.builder.transitions) < MaxBuilt
    /\ \E transition \in BuiltTransitions :
          ret' = [op |-> "add_transition", arg |-> transition,
                  builder |-> [ret.builder EXCEPT !.transitions =
                                  Append(@, transition)]]
    /\ UNCHANGED <<history, rest>>

\* StateMachineBuilder::transitions
machine_builder_transitions ==
    /\ HasBuilder
    /\ \E ts \in BuiltLists :
          /\ Len(ret.builder.transitions) + Len(ts) <= MaxBuilt
          /\ ret' = [op |-> "transitions", arg |-> ts,
                     builder |-> [ret.builder EXCEPT !.transitions = @ \o ts]]
    /\ UNCHANGED <<history, rest>>

\* StateMachineBuilder::build; `given` is the builder it consumed
machine_builder_build ==
    /\ HasBuilder
    /\ ret' = [op |-> "build", given |-> ret.builder, result |-> build(ret.builder)]
    /\ UNCHANGED <<history, rest>>

BuilderNext ==
    \/ machine_builder_initial
    \/ machine_builder_transition
    \/ machine_builder_add_transition
    \/ machine_builder_transitions
    \/ machine_builder_build

BuilderSpec == BuilderInit /\ [][BuilderNext]_vars

----------------------------------------------------------------------------
(* Vocabulary of the properties *)

\* the last operation was a step / a commit
Stepped == ret.op = "step"
Committed(kind) == ret.op = "apply_result" /\ ret.result.kind = kind

\* the indices of the transitions whose `from` is the current state and whose guard,
\* if present, is true of the current state
Matching ==
    {i \in 1..Len(transitions) :
        /\ transitions[i].from = current
        /\ IF transitions[i].guard = NoGuard THEN TRUE
           ELSE check(transitions[i].guard, current)}

Earliest(S) == CHOOSE i \in S : \A j \in S : i <= j

\* the counter update_metadata keeps for a transition in a metadata record
CounterOf(md, t) ==
    IF name(t.from) \in DOMAIN md.total_attempts
    THEN md.total_attempts[name(t.from)] ELSE 0

\* ts is a guard-free linear chain out of the initial state whose actions succeed
\* with their target, through states that are all different
IsChain(ts) ==
    /\ ts # <<>>
    /\ ts[1].from = initial
    /\ \A i \in DOMAIN ts :
          /\ ts[i].guard = NoGuard
          /\ ts[i].action = {Success(ts[i].to)}
          /\ i > 1 => ts[i].from = ts[i - 1].to
          /\ \A j \in DOMAIN ts : (ts[j].to = ts[i].to => j = i) /\ ts[j].to # initial

\* the machine is k commits down the chain of its transitions, and what the caller
\* holds is at most the result of a step from where the machine is now
OnChain(h, cur, attempts, held, ts) ==
    /\ Len(h) <= Len(ts)
    /\ \A k \in DOMAIN h :
          h[k].from = ts[k].from /\ h[k].to = ts[k].to /\ h[k].attempt = 0
    /\ cur = IF h = <<>> THEN initial ELSE ts[Len(h)].to
    /\ attempts = 0
    /\ BagCardinality(held) <= 1
    /\ \A p \in BagToSet(held) :
          /\ Len(h) < Len(ts)
          /\ p = <<cur, [kind |-> "Transitioned", state |-> ts[Len(h) + 1].to], 0>>

\* the last operation was enforce(); its rules, context and clock reading
Enforced == ret.op = "enforce"

\* the violations a validation carries
Violations(v) == IF v.valid THEN <<>> ELSE v.errors

\* the max_attempts rule is set and the context's attempt is above it
AttemptsRuleFails ==
    /\ ret.rules.max_attempts # <<>>
    /\ ret.context.attempt > ret.rules.max_attempts[1]

\* now minus started_at, or zero when started_at is later than now
ElapsedSeconds ==
    IF ret.context.started_at <= ret.now THEN ret.now - ret.context.started_at ELSE 0

\* the timeout rule is set and the elapsed time is above it
TimeoutRuleFails ==
    /\ ret.rules.timeout # <<>>
    /\ ElapsedSeconds > ret.rules.timeout[1]

\* the registered custom checks that fail on the context
FailingChecks ==
    {i \in DOMAIN ret.rules.required_checks :
        ~run_check(ret.rules.required_checks[i], ret.context).valid}

\* the number of configured rules that fail
FailingRules ==
    (IF AttemptsRuleFails THEN 1 ELSE 0) + (IF TimeoutRuleFails THEN 1 ELSE 0)
        + Cardinality(FailingChecks)

\* the sum of the numbers f[i] for i in S
RECURSIVE SumOver(_, _)
SumOver(f, S) ==
    IF S = {} THEN 0
    ELSE LET i == CHOOSE i \in S : TRUE IN f[i] + SumOver(f, S \ {i})

\* the sequences f[i] for i = 1..n, one after the other
RECURSIVE Concat(_, _)
Concat(f, n) == IF n = 0 THEN <<>> ELSE Concat(f, n - 1) \o f[n]

\* the last operation restored a machine from a snapshot
Restored == ret.op \in {"from_checkpoint", "from_json", "from_binary"}

\* the (from, to, attempt) of the records of a history, in order
Records(h) ==
    [i \in 1..Len(h) |-> [from |-> h[i].from, to |-> h[i].to, attempt |-> h[i].attempt]]

\* what step() returns on a machine in state `cur` with `attempts` committed
\* retries when the effect resolves to `result`
StepValue(cur, attempts, result) == <<cur, step_result(result, attempts), attempts>>

\* exactly one counter of `new` is one above its value in `old` (0 when absent),
\* and every other counter is as in `old`
OneCounterBumped(old, new) ==
    \E k \in DOMAIN new :
        /\ DOMAIN new = DOMAIN old \cup {k}
        /\ new[k] = (IF k \in DOMAIN old THEN old[k] ELSE 0) + 1
        /\ \A j \in DOMAIN old \ {k} : new[j] = old[j]

----------------------------------------------------------------------------
(* C1: first-match-wins.  A step invokes the action of the earliest declared  *)
(* transition whose `from` is the current state and whose guard passes, and   *)
(* of no other transition; its outcome is an outcome of that action.          *)
C1_FirstMatchWins ==
    Stepped =>
        IF Matching = {} THEN ret.invoked = <<>>
        ELSE /\ ret.invoked = <<Earliest(Matching)>>
             /\ ret.outcome \in transitions[Earliest(Matching)].action

\* a step skipped a blocked transition and chose the earlier of two that match
C1_Witness ==
    /\ Stepped
    /\ Cardinality(Matching) >= 2
    /\ 1 \notin Matching
    /\ ret.invoked = <<2>>

(* C2: when no transition matches, step fails with NoTransition naming the    *)
(* current state, invokes no action factory, and leaves the current state,    *)
(* the history and the attempt count as they were.                            *)
C2_NoTransition ==
    [][(ret'.op = "step" /\ Matching = {}) =>
          /\ ret' = [op |-> "step", ok |-> FALSE, invoked |-> <<>>,
                     error |-> [type |-> "NoTransition", from |-> name(current)]]
          /\ UNCHANGED <<current, history, attempt_count, pending>>]_vars

\* a step failed with NoTransition although a transition leaves the current state
C2_Witness ==
    /\ Stepped
    /\ ~ret.ok
    /\ ret.error.type = "NoTransition"
    /\ \E i \in 1..Len(transitions) : transitions[i].from = current

(* C3: step never mutates the machine, whatever the outcome; when it succeeds *)
(* it returns (current state, step result, attempt_count) as of the call.     *)
C3_StepIsPure ==
    [][ret'.op = "step" =>
          /\ UNCHANGED <<initial, current, history, attempt_count, metadata, transitions>>
          /\ ret'.ok =>
                /\ ret'.value[1] = current
                /\ ret'.value[2].kind \in {"Transitioned", "Retry", "Aborted"}
                /\ ret'.value[3] = attempt_count]_vars

\* a step returned a Retry from a machine that has committed a transition and a retry
C3_Witness ==
    /\ Stepped
    /\ ret.ok
    /\ ret.value[2].kind = "Retry"
    /\ ret.value[3] >= 1
    /\ Len(history) >= 1

(* C4: the step result is the action's outcome, mapped exactly: Success(s) to *)
(* Transitioned(s), Retry to Retry with the same feedback and attempts one    *)
(* above the attempt count at the call, Abort to Aborted with the same reason *)
(* and error state.                                                           *)
C4_OutcomeMapping ==
    (Stepped /\ ret.ok) =>
        LET o == ret.outcome
            r == ret.value[2]
        IN CASE o.kind = "Success" ->
                    r = [kind |-> "Transitioned", state |-> o.state]
             [] o.kind = "Retry" ->
                    r = [kind |-> "Retry", feedback |-> o.feedback,
                         attempts |-> attempt_count + 1]
             [] o.kind = "Abort" ->
                    r = [kind |-> "Aborted", reason |-> o.reason,
                         error_state |-> o.error_state]

\* a step mapped a Retry outcome after an earlier retry was committed
C4_Witness ==
    /\ Stepped
    /\ ret.ok
    /\ ret.outcome.kind = "Retry"
    /\ attempt_count >= 1
    /\ ret.value[2].attempts = attempt_count + 1

(* C5: committing Transitioned(new_state) appends exactly one record {from =  *)
(* the from_state passed, to = new_state, attempt = the attempt passed} to    *)
(* the history, sets current to new_state, resets attempt_count to 0 and      *)
(* bumps one total_attempts counter by one; a machine with the single         *)
(* transition Initial -> Processing that always succeeds has, after one       *)
(* commit, current = Processing and history [{Initial, Processing, 0}].       *)
C5_CommitTransitioned ==
    /\ [][(ret'.op = "apply_result" /\ ret'.result.kind = "Transitioned") =>
             /\ Len(history') = Len(history) + 1
             /\ SubSeq(history', 1, Len(history)) = history
             /\ history'[Len(history')].from = ret'.from_state
             /\ history'[Len(history')].to = ret'.result.state
             /\ history'[Len(history')].attempt = ret'.attempt
             /\ current' = ret'.result.state
             /\ attempt_count' = 0
             /\ OneCounterBumped(metadata.total_attempts,
                                 metadata'.total_attempts)]_vars
    /\ []((transitions = <<ToProcessing>> /\ Len(history) = 1) =>
             /\ current = Processing
             /\ history[1].from = Initial
             /\ history[1].to = Processing
             /\ history[1].attempt = 0)

\* the single-transition machine committed its first success
C5_Witness ==
    /\ Committed("Transitioned")
    /\ transitions = <<ToProcessing>>
    /\ Len(history) = 1
    /\ current = Processing

C7_CommitAborted ==
    [][(ret'.op = "apply_result" /\ ret'.result.kind = "Aborted") =>
          /\ current' = ret'.result.error_state
          /\ UNCHANGED <<history, attempt_count>>]_vars

\* an abort was committed after a retry, and the counter kept its value
C7_Witness ==
    /\ Committed("Aborted")
    /\ current = ret.result.error_state
    /\ attempt_count >= 1

(* C8, as stated: attempt_count is 0 right after every committed success and  *)
(* every committed abort, and one greater than before after every committed  *)
(* retry.                                                                     *)
C8_ZeroAfterSuccessOrAbort ==
    /\ []((Committed("Transitioned") \/ Committed("Aborted")) => attempt_count = 0)
    /\ [][(ret'.op = "apply_result" /\ ret'.result.kind = "Retry") =>
             attempt_count' = attempt_count + 1]_vars

(* C8, amended: attempt_count is 0 right after every committed success, one   *)
(* greater than before after every committed retry, and unchanged by a        *)
(* committed abort, so after k committed retries followed by a committed      *)
(* abort it is k.                                                             *)
C8_AttemptCount ==
    [][ret'.op = "apply_result" =>
          CASE ret'.result.kind = "Transitioned" -> attempt_count' = 0
            [] ret'.result.kind = "Retry" -> attempt_count' = attempt_count + 1
            [] ret'.result.kind = "Aborted" -> attempt_count' = attempt_count]_vars

\* an abort was committed after as many retries as the model commits
C8_Witness ==
    /\ Committed("Aborted")
    /\ attempt_count = MaxAttempts

(* C9: current is the initial state while nothing that sets it has been       *)
(* committed, the `to` of the last history record when the last such commit   *)
(* was a transition, and the error_state of the last committed abort when it  *)
(* was an abort.                                                              *)
C9_CurrentState ==
    current = CASE last_commit.kind = "none" -> initial
                [] last_commit.kind = "Transitioned" -> history[Len(history)].to
                [] last_commit.kind = "Aborted" -> last_commit.error_state

\* current is the error state of an abort committed after a transition: neither the
\* initial state nor the `to` of the last record
C9_Witness ==
    /\ last_commit.kind = "Aborted"
    /\ Len(history) >= 1
    /\ current # initial
    /\ current # history[Len(history)].to

(* C10: in a machine whose only transition always returns Retry, every step   *)
(* returns the attempt count and a Retry with attempts one above it, every    *)
(* commit adds one to the attempt count (so it is k after k cycles), and the  *)
(* current state and the history stay as they were at the start.              *)
C10_RetryScenario ==
    /\ [](transitions = <<Retrying>> =>
             /\ current = initial
             /\ history = <<>>
             /\ Stepped =>
                   /\ ret.ok
                   /\ ret.value = <<initial,
                                    [kind |-> "Retry", feedback |-> "Not ready yet",
                                     attempts |-> attempt_count + 1],
                                    attempt_count>>)
    /\ [][(transitions = <<Retrying>> /\ ret'.op = "apply_result") =>
             attempt_count' = attempt_count + 1]_vars

\* the third step of the retrying machine, after two committed retries
C10_Witness ==
    /\ transitions = <<Retrying>>
    /\ Stepped
    /\ ret.value[3] = 2
    /\ ret.value[2].attempts = 3

(* C11: the engine never retries internally.  A step that matches a          *)
(* transition invokes its action factory exactly once and produces one        *)
(* result; a Retry outcome comes back as a Retry value that the caller now    *)
(* holds, the step changes nothing in the machine, and the machine changes    *)
(* only when the caller commits a result.                                     *)
C11_NoInternalRetry ==
    /\ [][ret'.op = "step" =>
             /\ Len(ret'.invoked) = (IF Matching = {} THEN 0 ELSE 1)
             /\ UNCHANGED machine
             /\ (ret'.invoked # <<>> /\ ret'.outcome.kind = "Retry") =>
                   /\ ret'.ok
                   /\ ret'.value[2].kind = "Retry"
                   /\ pending' = pending (+) SetToBag({ret'.value})]_vars
    /\ [][machine' # machine => ret'.op = "apply_result"]_vars

\* the caller stepped again after committing a retry, and the action, invoked once,
\* asked for another retry
C11_Witness ==
    /\ Stepped
    /\ ret.invoked # <<>>
    /\ ret.outcome.kind = "Retry"
    /\ attempt_count >= 1
    /\ Len(ret.invoked) = 1
    /\ BagIn(ret.value, pending)

(* C12: when the effect of the matched action fails with a TransitionError,   *)
(* the step fails with that same error: no step result is produced, and the   *)
(* current state, the history and the attempt count stay as they were.        *)
C12_ActionErrorPropagates ==
    [][(ret'.op = "step" /\ ret'.invoked # <<>> /\ ret'.outcome.kind = "Err") =>
          /\ ~ret'.ok
          /\ ret'.error = ret'.outcome.error
          /\ UNCHANGED <<current, history, attempt_count, pending>>]_vars

\* the effect failed with ActionFailed on a machine that had committed a retry
C12_Witness ==
    /\ Stepped
    /\ ~ret.ok
    /\ ret.error = [type |-> "ActionFailed", detail |-> "io"]
    /\ attempt_count >= 1

(* C13: record is copy-on-write.  H.record(T) returns a history whose records *)
(* are H's records in order followed by T, and H keeps its transition count,  *)
(* its records and its path.                                                  *)
C13_RecordCopyOnWrite ==
    [][ret'.op = "record" =>
          /\ Len(ret'.value) = Len(history) + 1
          /\ SubSeq(ret'.value, 1, Len(history)) = history
          /\ ret'.value[Len(history) + 1] = ret'.transition
          /\ Len(history') = Len(history)
          /\ history' = history
          /\ get_path(history') = get_path(history)]_vars

\* a transition was recorded on a history that already holds a different record
C13_Witness ==
    /\ ret.op = "record"
    /\ Len(history) >= 1
    /\ ret.transition # history[1]
    /\ Len(ret.value) = Len(history) + 1

(* C14, as stated: for every history with N transitions, the empty history    *)
(* with N = 0 included, get_path() returns exactly N + 1 states.              *)
C14_PathLengthAlways ==
    ret.op = "get_path" => Len(ret.value) = Len(history) + 1

(* C14, amended: get_path() returns exactly N + 1 states for a history with   *)
(* N >= 1 transitions, and no state at all for the empty history.             *)
C14_PathLength ==
    ret.op = "get_path" =>
        Len(ret.value) = (IF Len(history) >= 1 THEN Len(history) + 1 ELSE 0)

\* get_path() was read off a history with as many records as the model builds
C14_Witness ==
    /\ ret.op = "get_path"
    /\ Len(history) = MaxRecords
    /\ Len(ret.value) = MaxRecords + 1

(* C15, as stated: for a machine that has committed at least one transition,  *)
(* history().get_path() is the machine's initial state followed by the `to`   *)
(* of each committed transition in commit order, whatever retries and aborts  *)
(* were committed in between.                                                 *)
C15_PathFromInitial ==
    Len(history) >= 1 =>
        get_path(history) = <<initial>> \o [i \in 1..Len(history) |-> history[i].to]

(* C16: the history is append-only with one record per committed transition:  *)
(* every operation leaves the records it found in place, and the length grows *)
(* by exactly 1 on a committed Transitioned result and by 0 on anything else. *)
C16_HistoryAppendOnly ==
    [][/\ Len(history') >= Len(history)
       /\ SubSeq(history', 1, Len(history)) = history
       /\ Len(history') = Len(history) +
              (IF ret'.op = "apply_result" /\ ret'.result.kind = "Transitioned"
               THEN 1 ELSE 0)]_vars

\* a second transition was committed after a first one that had needed a retry
C16_Witness ==
    /\ Committed("Transitioned")
    /\ Len(history) >= 2
    /\ history[1].attempt >= 1

(* C17: checkpoint() is a pure projection.  It leaves current, initial,       *)
(* history, attempt_count, metadata and transitions as they were, and the    *)
(* checkpoint it returns has version 1 and the machine's initial state,      *)
(* current state, history and metadata as of the call.                       *)
C17_CheckpointIsProjection ==
    [][ret'.op = "checkpoint" =>
          /\ UNCHANGED <<current, initial, history, attempt_count, metadata, transitions>>
          /\ ret'.value.version = 1
          /\ ret'.value.initial_state = initial
          /\ ret'.value.current_state = current
          /\ ret'.value.history = history
          /\ ret'.value.metadata = metadata]_vars

\* a checkpoint was taken of a machine that has committed two transitions, the first
\* of them after a retry
C17_Witness ==
    /\ ret.op = "checkpoint"
    /\ Len(history) >= 2
    /\ history[1].attempt >= 1
    /\ current # initial
    /\ ret.value.current_state = current
    /\ ret.value.history = history

(* C18: from_checkpoint, and from_json and from_binary through it, fails with *)
(* UnsupportedVersion{found = the snapshot's version, supported = 1} exactly  *)
(* when the snapshot's version is greater than the supported version, and     *)
(* then produces no machine; every snapshot of a version up to the supported  *)
(* one is accepted.                                                           *)
C18_UnsupportedVersion ==
    (Restored /\ ret.intact) =>
        IF ret.found > 1
        THEN /\ ~ret.result.ok
             /\ ret.result.error = [type |-> "UnsupportedVersion",
                                    found |-> ret.found, supported |-> 1]
             /\ "machine" \notin DOMAIN ret.result
        ELSE /\ ret.result.ok
             /\ "error" \notin DOMAIN ret.result

\* a binary snapshot of a newer version, taken after a committed transition, was refused
C18_Witness ==
    /\ ret.op = "from_binary"
    /\ ret.found = CHECKPOINT_VERSION + 1
    /\ ~ret.result.ok
    /\ ret.result.error.type = "UnsupportedVersion"
    /\ Len(history) >= 1

(* C19: checkpoint round trip.  Restoring from the machine's text checkpoint  *)
(* or from its binary checkpoint, with the same transitions, yields a machine *)
(* with the same current state and a history of the same length with equal    *)
(* (from, to, attempt) at every position; both encodings restore the same     *)
(* content.                                                                   *)
C19_RoundTrip ==
    /\ (/\ ret.op \in {"from_json", "from_binary"}
        /\ ret.intact
        /\ ret.found = CHECKPOINT_VERSION) =>
          /\ ret.result.ok
          /\ ret.result.machine.transitions = transitions
          /\ ret.result.machine.current = current
          /\ Len(ret.result.machine.history) = Len(history)
          /\ Records(ret.result.machine.history) = Records(history)
    /\ \A cp \in Checkpoints :
       \A text \in serde_json_to_string(cp) :
       \A bytes \in bincode_serialize(cp) :
          /\ from_json(text, transitions).ok
          /\ from_json(text, transitions) = from_binary(bytes, transitions)

\* a machine was restored from the bytes of a machine with two records, the first of
\* them committed after a retry, and two counters in its metadata
C19_Witness ==
    /\ ret.op = "from_binary"
    /\ ret.found = CHECKPOINT_VERSION
    /\ ret.result.ok
    /\ Len(ret.result.machine.history) >= 2
    /\ ret.result.machine.history[1].attempt >= 1
    /\ ret.result.machine.current = Complete
    /\ Cardinality(DOMAIN ret.result.machine.metadata.total_attempts) >= 2

(* C20, as stated: a machine restored from M's checkpoint with the same       *)
(* transitions is observationally equivalent to M.  Right after the restore   *)
(* it has M's current state and history records, and whatever the matching    *)
(* action resolves to, step returns on it what it returns on M, attempt       *)
(* count and Retry attempts included, also when M had retries committed.      *)
C20_ResumeEquivalent ==
    (/\ Restored
     /\ ret.found = CHECKPOINT_VERSION
     /\ ret.result.ok
     /\ ret.given = transitions) =>
        LET R == ret.result.machine
            i == find(R.transitions, R.current)
        IN /\ R.current = current
           /\ Records(R.history) = Records(history)
           /\ i = find(transitions, current)
           /\ i # 0 =>
                 \A result \in {o \in R.transitions[i].action : o.kind # "Err"} :
                    StepValue(R.current, R.attempt_count, result)
                        = StepValue(current, attempt_count, result)

(* C21, as stated: enforce() returns all violations of the failing rules, so  *)
(* the number of violations returned equals the number of failing rules among *)
(* max_attempts, timeout and each custom check.                               *)
C21_OneViolationPerRule ==
    Enforced => Len(Violations(ret.value)) = FailingRules

(* C21, amended: enforce() never fails fast.  Every failing rule contributes  *)
(* all the violations it reports: one for max_attempts, one for timeout, and  *)
(* for each failing custom check as many as the check reports (one for a      *)
(* require_pred check), so there are at least as many violations as failing   *)
(* rules; with max_attempts 3, timeout 5s, one always-failing predicate,      *)
(* attempt 5 and 10s elapsed there are exactly 3, one of each kind.           *)
C21_AllViolations ==
    Enforced =>
        LET checks == ret.rules.required_checks
            reported == [i \in DOMAIN checks |->
                            Len(Violations(run_check(checks[i], ret.context)))]
        IN /\ Len(Violations(ret.value))
                 = (IF AttemptsRuleFails THEN 1 ELSE 0)
                   + (IF TimeoutRuleFails THEN 1 ELSE 0)
                   + SumOver(reported, DOMAIN checks)
           /\ Len(Violations(ret.value)) >= FailingRules
           /\ \A i \in DOMAIN checks :
                 checks[i].kind = "require_pred" => reported[i] <= 1
           /\ (/\ ret.rules.max_attempts = <<3>>
               /\ ret.rules.timeout = <<5>>
               /\ Len(checks) = 1
               /\ checks[1].kind = "require_pred"
               /\ checks[1].predicate = "always_false"
               /\ ret.context.attempt = 5
               /\ ElapsedSeconds = 10) =>
                 /\ Len(Violations(ret.value)) = 3
                 /\ {ret.value.errors[k].type : k \in 1..3}
                       = {"MaxAttemptsExceeded", "TimeoutExceeded", "CustomCheckFailed"}

\* the enforcement of the example: three rules, all failing
C21_Witness ==
    /\ Enforced
    /\ ret.rules.max_attempts = <<3>>
    /\ ret.rules.timeout = <<5>>
    /\ Len(ret.rules.required_checks) = 1
    /\ ret.rules.required_checks[1].kind = "require_pred"
    /\ ret.rules.required_checks[1].predicate = "always_false"
    /\ ret.context.attempt = 5
    /\ ret.now - ret.context.started_at = 10
    /\ Len(Violations(ret.value)) = 3

(* C22: enforce() returns success if and only if no configured rule is        *)
(* violated; it succeeds when no rule at all is configured, and in every      *)
(* other case the violation list it returns is non-empty.                     *)
C22_SuccessIffNoViolation ==
    Enforced =>
        /\ ret.value.valid <=> FailingRules = 0
        /\ ~ret.value.valid => ret.value.errors # <<>>
        /\ (/\ ret.rules.max_attempts = <<>>
            /\ ret.rules.timeout = <<>>
            /\ ret.rules.required_checks = <<>>) => ret.value.valid

\* enforce succeeded with both thresholds set and two custom checks registered
C22_Witness ==
    /\ Enforced
    /\ ret.value.valid
    /\ ret.rules.max_attempts # <<>>
    /\ ret.rules.timeout # <<>>
    /\ Len(ret.rules.required_checks) = MaxChecks

(* C23: the violations are ordered as the rules are declared: the             *)
(* MaxAttemptsExceeded violation, if any, first, then the TimeoutExceeded     *)
(* violation, if any, then the violations of the custom checks in the order   *)
(* the checks were registered.                                                *)
C23_ViolationOrder ==
    Enforced =>
        LET checks == ret.rules.required_checks
            custom == [i \in DOMAIN checks |->
                          Violations(run_check(checks[i], ret.context))]
        IN Violations(ret.value)
              = (IF AttemptsRuleFails
                 THEN <<[type |-> "MaxAttemptsExceeded",
                         max |-> ret.rules.max_attempts[1],
                         current |-> ret.context.attempt]>>
                 ELSE <<>>)
                \o (IF TimeoutRuleFails
                    THEN <<[type |-> "TimeoutExceeded",
                            timeout |-> ret.rules.timeout[1],
                            elapsed |-> ElapsedSeconds]>>
                    ELSE <<>>)
                \o Concat(custom, Len(checks))

\* both built-in rules and two different custom checks failed
C23_Witness ==
    /\ Enforced
    /\ AttemptsRuleFails
    /\ TimeoutRuleFails
    /\ Cardinality(FailingChecks) >= 2
    /\ ret.rules.required_checks[1] # ret.rules.required_checks[2]

(* C24: the threshold comparisons are strict.  MaxAttemptsExceeded{max: m,    *)
(* current: attempt} is recorded exactly when max_attempts = m is set and     *)
(* attempt > m, TimeoutExceeded exactly when timeout = t is set and elapsed   *)
(* > t; attempt = m and elapsed = t pass, and an unset threshold produces no  *)
(* violation.                                                                 *)
C24_StrictThresholds ==
    Enforced =>
        LET errs == Violations(ret.value)
            of_type(T) == {k \in DOMAIN errs : errs[k].type = T}
        IN /\ of_type("MaxAttemptsExceeded") # {} <=> AttemptsRuleFails
           /\ \A k \in of_type("MaxAttemptsExceeded") :
                 /\ errs[k].max = ret.rules.max_attempts[1]
                 /\ errs[k].current = ret.context.attempt
           /\ of_type("TimeoutExceeded") # {} <=> TimeoutRuleFails
           /\ \A k \in of_type("TimeoutExceeded") :
                 /\ errs[k].timeout = ret.rules.timeout[1]
                 /\ errs[k].elapsed = ElapsedSeconds
           /\ (ret.rules.max_attempts # <<>>
                 /\ ret.context.attempt = ret.rules.max_attempts[1]) =>
                 of_type("MaxAttemptsExceeded") = {}
           /\ (ret.rules.timeout # <<>> /\ ElapsedSeconds = ret.rules.timeout[1]) =>
                 of_type("TimeoutExceeded") = {}

\* attempt equal to max_attempts and elapsed equal to the timeout: enforce succeeded
C24_Witness ==
    /\ Enforced
    /\ ret.rules.max_attempts = <<ret.context.attempt>>
    /\ ret.rules.timeout = <<ElapsedSeconds>>
    /\ ret.value.valid

(* C25: the violation strategy is metadata only.  Rule sets that differ only  *)
(* in the strategy give the same enforce() result on every context;           *)
(* violation_strategy() returns the strategy set with on_violation, and Abort *)
(* when none was set.                                                         *)
C25_StrategyIsMetadata ==
    /\ [](Enforced =>
             \A strategy \in ViolationStrategies :
                enforce([ret.rules EXCEPT !.on_violation = strategy],
                        ret.context, ret.now) = ret.value)
    /\ [](ret.op = "new" => ret.builder.on_violation = "Abort")
    /\ [][/\ ret'.op = "on_violation" => ret'.builder.on_violation = ret'.arg
          /\ ret'.op \in {"max_attempts", "timeout", "require", "require_pred"} =>
                ret'.builder.on_violation = ret.builder.on_violation
          /\ ret'.op = "build" => ret'.rules.on_violation = ret.builder.on_violation
          /\ (HasRules /\ "rules" \in DOMAIN ret') =>
                ret'.rules.on_violation = ret.rules.on_violation
          /\ ret'.op = "violation_strategy" =>
                ret'.value = ret.rules.on_violation]_vars

\* rules built with the IgnoreAndLog strategy reported violations all the same
C25_Witness ==
    /\ Enforced
    /\ ret.rules.on_violation = "IgnoreAndLog"
    /\ ~ret.value.valid

C27_CounterPerTransition ==
    [][(/\ ret'.op = "apply_result"
        /\ ret'.result.kind = "Transitioned") =>
          LET executed == find(transitions, ret'.from_state)
          IN \A i \in DOMAIN transitions :
                CounterOf(metadata', transitions[i])
                   = CounterOf(metadata, transitions[i])
                        + (IF i = executed THEN 1 ELSE 0)]_vars

(* C28: StateMachineBuilder::build fails with MissingInitialState when no     *)
(* initial state was set, whether or not transitions were added; it fails     *)
(* with NoTransitions when an initial state was set and no transition was     *)
(* added; otherwise it returns a machine whose current state is the initial   *)
(* state given, with an empty history, attempt count 0 and the transitions in *)
(* the order they were added (each adding method appends to what was added    *)
(* before).                                                                   *)
C28_BuildValidates ==
    /\ [](ret.op = "build" =>
            LET given == ret.given
            IN /\ given.initial = <<>> =>
                     ret.result = [ok |-> FALSE, error |-> "MissingInitialState"]
               /\ (given.initial # <<>> /\ given.transitions = <<>>) =>
                     ret.result = [ok |-> FALSE, error |-> "NoTransitions"]
               /\ (given.initial # <<>> /\ given.transitions # <<>>) =>
                     /\ ret.result.ok
                     /\ ret.result.value.initial = given.initial[1]
                     /\ ret.result.value.current = given.initial[1]
                     /\ ret.result.value.history = <<>>
                     /\ ret.result.value.attempt_count = 0
                     /\ ret.result.value.transitions = given.transitions)
    /\ [][/\ ret'.op = "add_transition" =>
                ret'.builder.transitions = ret.builder.transitions \o <<ret'.arg>>
          /\ ret'.op = "transitions" =>
                ret'.builder.transitions = ret.builder.transitions \o ret'.arg
          /\ (ret'.op = "transition" /\ "builder" \in DOMAIN ret') =>
                /\ Len(ret'.builder.transitions) = Len(ret.builder.transitions) + 1
                /\ SubSeq(ret'.builder.transitions, 1, Len(ret.builder.transitions))
                      = ret.builder.transitions
          /\ ret'.op = "initial" =>
                ret'.builder.transitions = ret.builder.transitions
          /\ ret'.op = "build" => ret'.given = ret.builder]_vars

\* build() returned a machine with two different transitions
C28_Witness ==
    /\ ret.op = "build"
    /\ ret.result.ok
    /\ Len(ret.result.value.transitions) = 2
    /\ ret.result.value.transitions[1] # ret.result.value.transitions[2]
    /\ ret.result.value.current # 0

(* C29: restoration errors are typed and final.  from_json and from_binary   *)
(* on input that does not decode to a checkpoint fail with                    *)
(* DeserializationFailed, whatever version the input was written with, and    *)
(* construct no machine; the version is checked only on input that decoded,   *)
(* so a snapshot that decodes fails, if it fails, with UnsupportedVersion; a  *)
(* restoration runs once and touches nothing of the machine at hand.          *)
C29_RestoreErrorsTyped ==
    /\ [](ret.op \in {"from_json", "from_binary"} =>
             /\ ~ret.intact =>
                   /\ ~ret.result.ok
                   /\ ret.result.error = [type |-> "DeserializationFailed"]
                   /\ DOMAIN ret.result = {"ok", "error"}
             /\ (ret.intact /\ ~ret.result.ok) =>
                   /\ ret.result.error = [type |-> "UnsupportedVersion",
                                          found |-> ret.found,
                                          supported |-> CHECKPOINT_VERSION]
                   /\ DOMAIN ret.result = {"ok", "error"}
             /\ ret.result.ok => DOMAIN ret.result = {"ok", "machine"})
    /\ [][ret'.op \in {"from_checkpoint", "from_json", "from_binary"} =>
             UNCHANGED <<machine, transitions>>]_vars

\* a text of an unsupported version that had lost a member was refused as undecodable
C29_Witness ==
    /\ ret.op = "from_json"
    /\ ~ret.intact
    /\ ret.found > CHECKPOINT_VERSION
    /\ ~ret.result.ok
    /\ Len(history) >= 1

(* C30: TransitionContext::elapsed() is the time from started_at to now: now   *)
(* minus started_at when started_at is not in the future, and zero (never a   *)
(* negative duration) when it is.                                             *)
C30_ElapsedFlooredAtZero ==
    ret.op = "elapsed" =>
        /\ ret.value >= 0
        /\ ret.context.started_at <= ret.now =>
              ret.value = ret.now - ret.context.started_at
        /\ ret.context.started_at > ret.now => ret.value = 0

\* elapsed() was read from a context whose started_at lies in the future
C30_Witness ==
    /\ ret.op = "elapsed"
    /\ ret.context.started_at > ret.now
    /\ ret.value = 0

(* C31: a machine whose transitions are a guard-free linear chain             *)
(* s0 -> s1 -> ... -> sn of always-succeeding actions, driven by step then    *)
(* apply_result in turn, walks down the chain: while it is short of sn a step *)
(* returns Transitioned(next state), each commit appends the next record, so  *)
(* after k commits it is at sk with path s0..sk and it is at sn after exactly *)
(* n commits; a step at sn fails with NoTransition and leaves it at sn.       *)
C31_LinearChain ==
    [][(/\ IsChain(transitions)
        /\ transitions' = transitions
        /\ OnChain(history, current, attempt_count, pending, transitions)
        /\ BagCardinality(pending') <= 1) =>
          /\ OnChain(history', current', attempt_count', pending', transitions)
          /\ ret'.op = "step" =>
                /\ machine' = machine
                /\ IF Len(history) < Len(transitions)
                   THEN /\ ret'.ok
                        /\ ret'.value[2] = [kind |-> "Transitioned",
                                            state |-> transitions[Len(history) + 1].to]
                   ELSE /\ ~ret'.ok
                        /\ ret'.error = [type |-> "NoTransition", from |-> name(current)]
                        /\ pending' = pending
          /\ ret'.op = "apply_result" =>
                /\ ret'.result.kind = "Transitioned"
                /\ Len(history') = Len(history) + 1
                /\ current' = transitions[Len(history')].to
                /\ get_path(history')
                      = <<initial>> \o [k \in 1..Len(history') |-> transitions[k].to]
          /\ current' = transitions[Len(transitions)].to <=>
                Len(history') = Len(transitions)]_vars

\* the machine walked a chain of two transitions to its end, where a step then failed
C31_Witness ==
    /\ IsChain(transitions)
    /\ Len(transitions) = 2
    /\ OnChain(history, current, attempt_count, pending, transitions)
    /\ Len(history) = 2
    /\ current = Complete
    /\ Stepped
    /\ ~ret.ok

C33_CurrentAttemptTracked ==
    /\ metadata.current_attempt = attempt_count
    /\ ret.op = "checkpoint" => ret.value.metadata.current_attempt = attempt_count

(* C34: StateHistory::duration() returns None exactly when the history has   *)
(* no transitions, and otherwise the duration between the first and the last  *)
(* record's timestamps (zero for a single record), whatever the timestamps    *)
(* are, a last timestamp earlier than the first included.                     *)
C34_DurationFirstToLast ==
    ret.op = "duration" =>
        /\ ret.value = <<>> <=> history = <<>>
        /\ Len(history) = 1 => ret.value = <<0>>
        /\ (history # <<>>
              /\ history[Len(history)].timestamp >= history[1].timestamp) =>
              ret.value = <<history[Len(history)].timestamp - history[1].timestamp>>

(* C35: step() never fails with GuardBlocked.  A transition whose `from` is   *)
(* the current state and whose guard is false is skipped and matching goes on *)
(* with the later transitions; when none matches the failure is NoTransition  *)
(* naming the current state, the same error as when no transition has that    *)
(* `from`.                                                                    *)
C35_GuardRejectionIsNoTransition ==
    Stepped =>
        LET blocked == {i \in 1..Len(transitions) :
                           /\ transitions[i].from = current
                           /\ transitions[i].guard # NoGuard
                           /\ ~check(transitions[i].guard, current)}
        IN /\ \A i \in blocked : ret.invoked # <<i>>
           /\ Matching # {} => ret.invoked = <<Earliest(Matching)>>
           /\ Matching = {} =>
                 /\ ~ret.ok
                 /\ ret.invoked = <<>>
                 /\ ret.error = [type |-> "NoTransition", from |-> name(current)]
           /\ ~ret.ok =>
                 \/ ret.error = [type |-> "NoTransition", from |-> name(current)]
                 \/ ret.invoked # <<>> /\ ret.error = ret.outcome.error

\* a step whose first two candidates differ: the guard of the first rejected the
\* current state and the second was invoked
C35_Witness ==
    /\ Stepped
    /\ Len(transitions) >= 2
    /\ transitions[1].from = current
    /\ transitions[1].guard # NoGuard
    /\ ~check(transitions[1].guard, current)
    /\ ret.invoked = <<2>>

(* C36: a commit always succeeds and checks no staleness.  apply_result       *)
(* applies every result the caller holds, also one whose from_state is not    *)
(* the current state: when two steps were computed from the same state and    *)
(* both Transitioned results are committed, both are appended to the history, *)
(* each with the from_state of its step, and current ends as the state of the *)
(* result committed last.                                                     *)
C36_CommitWithoutStalenessCheck ==
    /\ []((Len(history) < MaxHistory /\ attempt_count < MaxAttempts) =>
             \A args \in BagToSet(pending) : ENABLED apply_result(args))
    /\ [][ret'.op = "apply_result" =>
             /\ pending' (+) SetToBag({<<ret'.from_state, ret'.result, ret'.attempt>>})
                   = pending
             /\ ret'.result.kind = "Transitioned" =>
                   /\ Len(history') = Len(history) + 1
                   /\ SubSeq(history', 1, Len(history)) = history
                   /\ history'[Len(history')].from = ret'.from_state
                   /\ history'[Len(history')].to = ret'.result.state
                   /\ history'[Len(history')].attempt = ret'.attempt
                   /\ current' = ret'.result.state
             /\ ret'.result.kind = "Retry" =>
                   attempt_count' = attempt_count + 1 /\ current' = current
             /\ ret'.result.kind = "Aborted" =>
                   current' = ret'.result.error_state]_vars

\* two results computed from Initial were both committed: the second record starts
\* at Initial although the machine had left it
C36_Witness ==
    /\ Committed("Transitioned")
    /\ Len(history) = 2
    /\ history[1].from = Initial
    /\ history[1].to = Processing
    /\ history[2].from = Initial
    /\ current = history[2].to

(* C37: the state committed on success is the state the action returned, not *)
(* the `to` the matched transition declares.  When the action of A -> B       *)
(* returns Success(C), step yields Transitioned(C), whatever B is, and the    *)
(* commit of that result sets current to C and records {from: A, to: C}.      *)
C37_ActionStateWins ==
    /\ []((Stepped /\ ret.invoked # <<>> /\ ret.outcome.kind = "Success") =>
             /\ ret.ok
             /\ ret.value[1] = transitions[ret.invoked[1]].from
             /\ ret.value[2] = [kind |-> "Transitioned", state |-> ret.outcome.state])
    /\ [][(/\ Stepped
           /\ ret.invoked # <<>>
           /\ ret.outcome.kind = "Success"
           /\ ret'.op = "apply_result"
           /\ ret.value = <<ret'.from_state, ret'.result, ret'.attempt>>) =>
             /\ current' = ret.outcome.state
             /\ history'[Len(history')].from = transitions[ret.invoked[1]].from
             /\ history'[Len(history')].to = ret.outcome.state]_vars

\* a transition declared Initial -> Processing whose action returned Complete was
\* committed: the machine is at Complete
C37_Witness ==
    /\ Committed("Transitioned")
    /\ Len(history) = 1
    /\ find(transitions, history[1].from) # 0
    /\ transitions[find(transitions, history[1].from)].to = Processing
    /\ history[1].to = Complete
    /\ current = Complete

(* C38: step and commit never evaluate enforcement rules and cap nothing.     *)
(* Matching looks at the current state and the guards only, so a transition   *)
(* whose action keeps returning Retry is matched and invoked on every step    *)
(* and attempt_count grows by one with every committed retry, also beyond the *)
(* max_attempts of the enforcement rules the transition carries.              *)
C38_EnforcementNotApplied ==
    /\ [](Stepped =>
             /\ Matching # {} => ret.invoked = <<Earliest(Matching)>>
             /\ (ret.invoked # <<>> /\ ret.outcome.kind = "Retry") =>
                   /\ ret.ok
                   /\ ret.value[2].kind = "Retry"
                   /\ ret.value[2].attempts = attempt_count + 1)
    /\ [](transitions = <<Capped>> =>
             /\ current = Initial
             /\ Stepped => ret.ok /\ ret.invoked = <<1>>)
    /\ [][(ret'.op = "apply_result" /\ ret'.result.kind = "Retry") =>
             attempt_count' = attempt_count + 1]_vars

\* the transition allowed one attempt was invoked again after two committed retries
C38_Witness ==
    /\ transitions = <<Capped>>
    /\ Stepped
    /\ attempt_count = 2
    /\ attempt_count > transitions[1].enforcement[1].max_attempts[1]
    /\ ret.ok
    /\ ret.value[2].attempts = 3

(* C39: from_checkpoint always starts the restored machine with attempt_count *)
(* 0, whatever the attempt count of the original was when the checkpoint was  *)
(* taken, and installs the transitions the caller supplies without checking   *)
(* them against the snapshot: with a supported version the restoration        *)
(* succeeds also with an empty or a different list, and a step on the         *)
(* restored machine fails with NoTransition when none of them matches.        *)
C39_RestoreUnchecked ==
    Restored =>
        /\ (ret.intact /\ ret.found <= CHECKPOINT_VERSION) => ret.result.ok
        /\ ret.result.ok =>
              LET R == ret.result.machine
              IN /\ R.attempt_count = 0
                 /\ R.transitions = ret.given
                 /\ R.current = current
                 /\ (\A i \in 1..Len(ret.given) :
                        \/ ret.given[i].from # R.current
                        \/ /\ ret.given[i].guard # NoGuard
                           /\ ~check(ret.given[i].guard, R.current)) =>
                       step_on(R) = {[ok |-> FALSE,
                                      error |-> [type |-> "NoTransition",
                                                 from |-> name(R.current)]]}

\* a machine with a committed retry was restored without any transitions
C39_Witness ==
    /\ ret.op = "from_checkpoint"
    /\ ret.result.ok
    /\ attempt_count >= 1
    /\ ret.result.machine.attempt_count = 0
    /\ transitions # <<>>
    /\ ret.given = <<>>

(* C40: finality is reported but not enforced. is_final() of the machine is  *)
(* exactly is_final() of its current state, and matching consults neither    *)
(* is_final nor is_error: from a current state that is final, or that is the  *)
(* error state of a committed abort, a step still runs the first transition  *)
(* whose from is that state and whose guard passes, and committing its       *)
(* Transitioned result moves the machine out of that state.                  *)
C40_FinalityNotEnforced ==
    /\ [](machine_is_final = (current \in {Complete, Failed}))
    /\ [][(/\ step
           /\ \/ current \in {Complete, Failed}
              \/ last_commit.kind = "Aborted" /\ current = last_commit.error_state
           /\ \E i \in 1..Len(transitions) :
                 /\ transitions[i].from = current
                 /\ transitions[i].guard = NoGuard \/ check(transitions[i].guard, current)) =>
             /\ ret'.invoked # <<>>
             /\ transitions[ret'.invoked[1]].from = current
             /\ ret'.outcome \in transitions[ret'.invoked[1]].action
             /\ ret'.outcome.kind # "Err" =>
                   /\ ret'.ok
                   /\ ret'.value[1] = current
                   /\ ret'.value \in BagToSet(pending')]_vars
    /\ [][\A args \in BagToSet(pending) :
            (/\ apply_result(args)
             /\ args[1] = current
             /\ current \in {Complete, Failed}
             /\ args[2].kind = "Transitioned") =>
               /\ current' = args[2].state
               /\ Len(history') = Len(history) + 1
               /\ history'[Len(history')].from = current
               /\ history'[Len(history')].to = args[2].state]_vars

\* after a committed abort to Failed, a transition out of Failed was committed
C40_Witness ==
    /\ Committed("Transitioned")
    /\ ret.from_state = Failed
    /\ is_final(ret.from_state)
    /\ is_error(ret.from_state)
    /\ history # <<>>
    /\ history[Len(history)].from = Failed
    /\ current = ret.result.state
    /\ current # Failed
    /\ ~machine_is_final

====
